---------------------------- MODULE Spec2Model ----------------------------
(***************************************************************************)
(* Execution-control engine of PC-BASIC (basic/interpreter.py) over the    *)
(* tokenised code streams of basic/codestream.py, with the statement       *)
(* recogniser of basic/statements.py.                                      *)
(*                                                                         *)
(* A code stream is a sequence of bytes (integers 0..255) with a 0-based   *)
(* cursor; a read at the end of the stream yields the empty string, which  *)
(* is written EOF here.  One step of the model is one iteration of the     *)
(* main loop Interpreter.parse: event poll, event dispatch, line marker,   *)
(* one statement, error trapping.                                          *)
(***************************************************************************)
EXTENDS Integers, Sequences, FiniteSets, TLC

(***************************************************************************)
(* Token bytes (the dialect constants of the tokenised format).            *)
(***************************************************************************)
NUL == 0
TAB9 == 9
LF == 10
tk_T_UINT == 14
tk_C_0 == 17
SPACE == 32
QUOTE == 34
COMMA == 44
COLON == 58
SEMICOLON == 59
tk_FOR == 130
tk_NEXT == 131
tk_DATA == 132
tk_READ == 135
tk_GOTO == 137
tk_IF == 139
tk_RESTORE == 140
tk_GOSUB == 141
tk_RETURN == 142
tk_REM == 143
tk_STOP == 144
tk_PRINT == 145
tk_CLEAR == 146
tk_ON == 149
tk_ELSE == 161
tk_ERROR == 167
tk_RESUME == 168
tk_WHILE == 177
tk_WEND == 178
tk_KEY == 201
tk_TO == 204
tk_THEN == 205
tk_STEP == 207
tk_O_EQ == 231
tk_O_PLUS == 233
tk_O_MINUS == 234
tk_PREFIX == 254
tk_SYSTEM2 == 131
\* the empty string returned by a read at the end of the stream
EOF == -1
\* None, for an optional line number or an unset trap target
NONE == -1

\* error numbers raised by the engine
NEXT_WITHOUT_FOR == 1
STX == 2
RETURN_WITHOUT_GOSUB == 3
OUT_OF_DATA == 4
IFC == 5
UNDEFINED_LINE_NUMBER == 8
TYPE_MISMATCH == 13
NO_RESUME == 19
RESUME_WITHOUT_ERROR == 20
MISSING_OPERAND == 22
FOR_WITHOUT_NEXT == 26
WHILE_WITHOUT_WEND == 29
WEND_WITHOUT_WHILE == 30

blanks == {SPACE, TAB9, LF}
tk_END_LINE == {NUL, EOF}
tk_END_STATEMENT == tk_END_LINE \cup {COLON}
tk_END_EXPRESSION == tk_END_STATEMENT \cup {COMMA}
\* trailing bytes of multi-byte tokens
tk_PLUS_BYTES == (tk_T_UINT :> 2) @@ (13 :> 2) @@ (11 :> 2) @@ (12 :> 2) @@ (15 :> 1)
              @@ (28 :> 2) @@ (29 :> 4) @@ (31 :> 8)
              @@ (253 :> 1) @@ (254 :> 1) @@ (255 :> 1)
Letters == (65..90) \cup (97..122)
Digits == 48..57
tk_NAME_CHARS == Letters \cup Digits \cup {46}
tk_SIGILS == {33, 35, 36, 37}
DefaultSigil == 33
\* values.STR: the sigil of a string variable
STR == 36

Min(a, b) == IF a < b THEN a ELSE b

(***************************************************************************)
(* CodeStream: reads on a buffer and a cursor position.                    *)
(***************************************************************************)
\* the byte a read(1) at position p returns
Byte(buf, p) == IF p >= 0 /\ p < Len(buf) THEN buf[p + 1] ELSE EOF
\* the bytes a read(n) at position p returns (a short read at the end)
ReadN(buf, p, n) == SubSeq(buf, p + 1, Min(p + n, Len(buf)))
\* the cursor after a read(n) at position p
Adv(buf, p, n) == IF p >= Len(buf) THEN p ELSE Min(p + n, Len(buf))

\* CodeStream.skip: the cursor after skipping the bytes in skip_range
RECURSIVE skip(_, _, _)
skip(buf, p, skip_range) ==
    IF Byte(buf, p) # EOF /\ Byte(buf, p) \in skip_range
    THEN skip(buf, p + 1, skip_range)
    ELSE p

\* CodeStream.skip_blank: the cursor on the first non-blank byte
skip_blank(buf, p) == skip(buf, p, blanks)

(***************************************************************************)
(* TokenisedStream.skip_to: the cursor after the scan from p.              *)
(***************************************************************************)
\* one pass of the loop, the byte at p being read: the loop is left with the
\* cursor at pos (done), or goes on at pos with these flags
\* a faulty pass of skip_to, to validate C26: the flags are ignored
skip_to_pass_unflagged(buf, p, c, findrange, literal, rem, break_on_first_char) ==
    IF c = EOF
    THEN [done |-> TRUE, pos |-> p, literal |-> FALSE, rem |-> FALSE, first |-> TRUE]
    ELSE IF c \in findrange /\ break_on_first_char
    THEN [done |-> TRUE, pos |-> p, literal |-> FALSE, rem |-> FALSE, first |-> TRUE]
    ELSE IF c = NUL /\ (Len(ReadN(buf, p + 1, 2)) < 2 \/ ReadN(buf, p + 1, 2) = <<0, 0>>)
    THEN [done |-> TRUE, pos |-> p + 1 + Len(ReadN(buf, p + 1, 2)), literal |-> FALSE,
          rem |-> FALSE, first |-> TRUE]
    ELSE [done |-> FALSE,
          pos |-> IF c = NUL THEN Adv(buf, p + 3, 2)
                  ELSE IF c \in DOMAIN tk_PLUS_BYTES THEN Adv(buf, p + 1, tk_PLUS_BYTES[c])
                  ELSE p + 1,
          literal |-> FALSE, rem |-> FALSE, first |-> TRUE]

\* a faulty skip_to, to validate C40: the cursor moves by the length asked
\* for where the read is short
skip_to_pass_unclamped(buf, p, c, findrange, literal, rem, break_on_first_char) ==
    LET left(pos) == [done |-> TRUE, pos |-> pos, literal |-> FALSE, rem |-> FALSE,
                      first |-> TRUE]
        on(pos, lit1, rem1, first) ==
            [done |-> FALSE, pos |-> pos, literal |-> lit1, rem |-> rem1,
             first |-> first]
        marker(off, rem1) ==
            IF Len(off) < 2 \/ off = <<0, 0>> THEN left(p + 3)
            ELSE on(p + 5, FALSE, rem1, TRUE)
        flagged(lit1, rem1) ==
            IF lit1 \/ rem1 THEN on(p + 1, lit1, rem1, break_on_first_char)
            ELSE IF c \in findrange /\ break_on_first_char THEN left(p)
            ELSE IF c = NUL THEN marker(ReadN(buf, p + 1, 2), rem1)
            ELSE IF c \in DOMAIN tk_PLUS_BYTES
            THEN on(p + 1 + tk_PLUS_BYTES[c], lit1, rem1, TRUE)
            ELSE on(p + 1, lit1, rem1, TRUE)
    IN IF c = EOF THEN left(p)
       ELSE flagged(IF c = QUOTE THEN ~literal
                    ELSE IF c = tk_REM THEN literal
                    ELSE IF c = NUL THEN FALSE ELSE literal,
                    IF c = QUOTE THEN rem
                    ELSE IF c = tk_REM THEN TRUE
                    ELSE IF c = NUL THEN FALSE ELSE rem)

skip_to_pass(buf, p, c, findrange, literal, rem, break_on_first_char) ==
    LET left(pos) == [done |-> TRUE, pos |-> pos, literal |-> FALSE, rem |-> FALSE,
                      first |-> TRUE]
        on(pos, lit1, rem1, first) ==
            [done |-> FALSE, pos |-> pos, literal |-> lit1, rem |-> rem1,
             first |-> first]
        marker(off, rem1) ==
            IF Len(off) < 2 \/ off = <<0, 0>> THEN left(p + 1 + Len(off))
            ELSE on(Adv(buf, p + 3, 2), FALSE, rem1, TRUE)
        flagged(lit1, rem1) ==
            IF lit1 \/ rem1 THEN on(p + 1, lit1, rem1, break_on_first_char)
            ELSE IF c \in findrange /\ break_on_first_char THEN left(p)
            ELSE IF c = NUL THEN marker(ReadN(buf, p + 1, 2), rem1)
            ELSE IF c \in DOMAIN tk_PLUS_BYTES
            THEN on(Adv(buf, p + 1, tk_PLUS_BYTES[c]), lit1, rem1, TRUE)
            ELSE on(p + 1, lit1, rem1, TRUE)
    IN IF c = EOF THEN left(p)
       ELSE flagged(IF c = QUOTE THEN ~literal
                    ELSE IF c = tk_REM THEN literal
                    ELSE IF c = NUL THEN FALSE ELSE literal,
                    IF c = QUOTE THEN rem
                    ELSE IF c = tk_REM THEN TRUE
                    ELSE IF c = NUL THEN FALSE ELSE rem)

\* the loop: r is the state after the passes made so far
RECURSIVE skip_to_loop(_, _, _)
skip_to_loop(buf, r, findrange) ==
    IF r.done THEN r.pos
    ELSE skip_to_loop(buf, skip_to_pass(buf, r.pos, Byte(buf, r.pos), findrange,
                                        r.literal, r.rem, r.first), findrange)

skip_to(buf, p, findrange, break_on_first_char) ==
    skip_to_loop(buf, [done |-> FALSE, pos |-> p, literal |-> FALSE, rem |-> FALSE,
                       first |-> break_on_first_char], findrange)

\* a faulty require_end, to validate C30: any byte ends a statement
require_end_any(buf, p) == [pos |-> skip_blank(buf, p), err |-> 0]

\* TokenisedStream.require_end: the cursor after the blanks, and the error
require_end(buf, p) ==
    LET at(q) == [pos |-> q,
                  err |-> IF Byte(buf, q) \in tk_END_STATEMENT THEN 0 ELSE STX]
    IN at(skip_blank(buf, p))

(***************************************************************************)
(* TokenisedStream.skip_block: the cursor after the scan for the block end *)
(***************************************************************************)
\* the loop over the entries of NEXT I, J; ret: skip_block returns at once
RECURSIVE skip_block_comma(_, _, _)
skip_block_comma(buf, p, stack) ==
    LET skipped(q1) ==
            IF Byte(buf, q1) = COMMA
            THEN IF stack > 0
                 THEN skip_block_comma(buf, q1 + 1, stack - 1)
                 ELSE [pos |-> q1, stack |-> stack, ret |-> TRUE]
            ELSE skip_block_comma(buf, q1, stack)
        at(q) ==
            IF Byte(buf, q) \in tk_END_STATEMENT
            THEN [pos |-> q, stack |-> stack, ret |-> FALSE]
            ELSE skipped(skip_to(buf, q, tk_END_STATEMENT \cup {COMMA}, TRUE))
    IN at(skip_blank(buf, p))

\* a faulty skip_block, to validate C27: the scan stops at the ends of
\* statements only, not behind THEN and ELSE
RECURSIVE skip_block_statements(_, _, _, _, _, _)
skip_block_statements(buf, p, for_char, next_char, allow_comma, stack) ==
    LET listed(r) ==
            IF r.ret THEN r.pos
            ELSE skip_block_statements(buf, r.pos, for_char, next_char, allow_comma,
                                       r.stack)
        keyword(p3, d) ==
            IF d = EOF THEN p3
            ELSE IF d = for_char
            THEN skip_block_statements(buf, p3 + 1, for_char, next_char, allow_comma,
                                       stack + 1)
            ELSE IF d = next_char
            THEN IF stack <= 0 THEN p3
                 ELSE IF allow_comma
                 THEN listed(skip_block_comma(buf, p3 + 1, stack - 1))
                 ELSE skip_block_statements(buf, p3 + 1, for_char, next_char,
                                            allow_comma, stack - 1)
            ELSE skip_block_statements(buf, p3, for_char, next_char, allow_comma, stack)
        statement(p3) == keyword(p3, Byte(buf, p3))
        read(c, p1, trail) ==
            IF c = NUL /\ (Len(trail) < 2 \/ SubSeq(trail, 1, 2) = <<0, 0>>)
            THEN Adv(buf, p1, 4)
            ELSE statement(skip_blank(buf, IF c = NUL THEN Adv(buf, p1, 4) ELSE p1))
        found(p0) == read(Byte(buf, p0), Adv(buf, p0, 1), ReadN(buf, Adv(buf, p0, 1), 4))
    IN found(skip_to(buf, p, tk_END_STATEMENT, TRUE))

RECURSIVE skip_block_loop(_, _, _, _, _, _)
skip_block_loop(buf, p, for_char, next_char, allow_comma, stack) ==
    LET \* after the entries of a NEXT list
        listed(r) ==
            IF r.ret THEN r.pos
            ELSE skip_block_loop(buf, r.pos, for_char, next_char, allow_comma, r.stack)
        \* p3: the first keyword of the statement
        keyword(p3, d) ==
            IF d = EOF THEN p3
            ELSE IF d = for_char
            THEN skip_block_loop(buf, p3 + 1, for_char, next_char, allow_comma, stack + 1)
            ELSE IF d = next_char
            THEN IF stack <= 0 THEN p3
                 ELSE IF allow_comma
                 THEN listed(skip_block_comma(buf, p3 + 1, stack - 1))
                 ELSE skip_block_loop(buf, p3 + 1, for_char, next_char, allow_comma,
                                      stack - 1)
            ELSE skip_block_loop(buf, p3, for_char, next_char, allow_comma, stack)
        statement(p3) == keyword(p3, Byte(buf, p3))
        \* c: the byte skip_to_read has read, p1: the cursor after it
        read(c, p1, trail) ==
            IF c = NUL /\ (Len(trail) < 2 \/ SubSeq(trail, 1, 2) = <<0, 0>>)
            THEN Adv(buf, p1, 4)
            ELSE statement(skip_blank(buf, IF c = NUL THEN Adv(buf, p1, 4) ELSE p1))
        found(p0) == read(Byte(buf, p0), Adv(buf, p0, 1), ReadN(buf, Adv(buf, p0, 1), 4))
    IN found(skip_to(buf, p, tk_END_STATEMENT \cup {tk_THEN, tk_ELSE}, TRUE))

skip_block(buf, p, for_char, next_char, allow_comma) ==
    skip_block_loop(buf, p, for_char, next_char, allow_comma, 0)

(***************************************************************************)
(* CodeStream.read_name and the line-number operand.                       *)
(***************************************************************************)
upper(c) == IF c \in 97..122 THEN c - 32 ELSE c

RECURSIVE read_name_loop(_, _, _)
read_name_loop(buf, p, name) ==
    LET d == Byte(buf, p) IN
    IF d \in tk_NAME_CHARS
    THEN read_name_loop(buf, p + 1, Append(name, upper(d)))
    ELSE LET name40 == SubSeq(name, 1, Min(Len(name), 40)) IN
         IF d \in tk_SIGILS
         THEN [name |-> Append(name40, d), pos |-> p + 1]
         ELSE [name |-> name40, pos |-> p]

read_name(buf, p) ==
    LET at(p0, d) == IF d = EOF \/ d \notin Letters
                     THEN [name |-> <<>>, pos |-> p0]
                     ELSE read_name_loop(buf, p0, <<>>)
        first(p0) == at(p0, Byte(buf, p0))
    IN first(skip_blank(buf, p))

\* Memory.complete_name: append the default sigil when the name has none
complete_name(name) ==
    IF name[Len(name)] \in tk_SIGILS THEN name ELSE Append(name, DefaultSigil)

\* StatementParser.parse_name
parse_name(buf, p) ==
    LET named(r) == IF r.name = <<>>
                    THEN [name |-> <<>>, pos |-> r.pos, err |-> STX]
                    ELSE [name |-> complete_name(r.name), pos |-> r.pos, err |-> 0]
    IN named(read_name(buf, p))

\* StatementParser._parse_jumpnum: T_UINT and a 2-byte little-endian number
parse_jumpnum(buf, p) ==
    LET number(q, token) ==
            IF Byte(buf, q) # tk_T_UINT
            THEN [num |-> NONE, pos |-> q, err |-> STX]
            ELSE [num |-> IF Len(token) = 2 THEN token[1] + 256 * token[2] ELSE NONE,
                  pos |-> Adv(buf, q + 1, 2), err |-> 0]
        at(q) == number(q, ReadN(buf, q + 1, 2))
    IN at(skip_blank(buf, p))

\* StatementParser._parse_optional_jumpnum
parse_optional_jumpnum(buf, p) ==
    LET at(q) == IF Byte(buf, q) # tk_T_UINT
                 THEN [num |-> NONE, pos |-> q, err |-> 0]
                 ELSE parse_jumpnum(buf, q)
    IN at(skip_blank(buf, p))

(***************************************************************************)
(* Expressions (the expression parser is a collaborator of the engine):    *)
(* one-byte constants 0..10, unary minus, scalar names, and + and -.       *)
(***************************************************************************)
\* the scalars of the model: I!, J!, A%, B$, C%
VarNames == {<<73, DefaultSigil>>, <<74, DefaultSigil>>, <<65, 37>>, <<66, STR>>, <<67, 37>>}

parse_primary(buf, p, scalars) ==
    LET variable(neg, q1, nm) ==
            IF nm.name # <<>> /\ complete_name(nm.name) \in VarNames
            THEN [val |-> IF neg THEN 0 - scalars[complete_name(nm.name)]
                          ELSE scalars[complete_name(nm.name)],
                  pos |-> nm.pos, err |-> 0]
            ELSE [val |-> 0, pos |-> q1, err |-> MISSING_OPERAND]
        operand(neg, q1, c1) ==
            IF c1 \in tk_C_0 .. (tk_C_0 + 10)
            THEN [val |-> IF neg THEN 0 - (c1 - tk_C_0) ELSE c1 - tk_C_0,
                  pos |-> q1 + 1, err |-> 0]
            ELSE variable(neg, q1, read_name(buf, q1))
        signed(neg, q1) == operand(neg, q1, Byte(buf, q1))
        at(q) == IF Byte(buf, q) = tk_O_MINUS
                 THEN signed(TRUE, skip_blank(buf, q + 1))
                 ELSE signed(FALSE, q)
    IN at(skip_blank(buf, p))

RECURSIVE parse_expression_rest(_, _, _, _)
parse_expression_rest(buf, p, scalars, acc) ==
    LET term(c, r) ==
            IF r.err # 0 THEN r
            ELSE parse_expression_rest(buf, r.pos, scalars,
                     IF c = tk_O_PLUS THEN acc + r.val ELSE acc - r.val)
        operator(q, c) ==
            IF c \notin {tk_O_PLUS, tk_O_MINUS}
            THEN [val |-> acc, pos |-> p, err |-> 0]
            ELSE term(c, parse_primary(buf, q + 1, scalars))
        at(q) == operator(q, Byte(buf, q))
    IN at(skip_blank(buf, p))

parse_expression(buf, p, scalars) ==
    LET first(r) == IF r.err # 0 THEN r
                    ELSE parse_expression_rest(buf, r.pos, scalars, r.val)
    IN first(parse_primary(buf, p, scalars))

(***************************************************************************)
(* State of the engine (Interpreter) and of its collaborators.             *)
(***************************************************************************)
VARIABLES
    program,            \* program.bytecode: the stored program
    line_numbers,       \* program.line_numbers: line number -> offset of its marker
    direct_line,        \* the direct-line buffer
    run_mode,           \* True: stored program, False: direct line
    program_pos,        \* cursor of program_code
    direct_pos,         \* cursor of direct_line
    current_statement,  \* offset where the current statement starts
    gosub_stack,        \* frames [pos, run_mode, handler]
    for_stack,          \* frames [counter, stop, step, sgn, forpos, nextpos]
    while_stack,        \* frames [whilepos, wendpos]
    data_pos,           \* the DATA cursor
    on_error,           \* trap target: NONE unset, 0 disabled, else a line number
    error_handle_mode,  \* the handling flag
    error_resume,       \* <<>> none, else <<statement start, run-mode>>
    error_num,          \* ERR
    error_pos,          \* position for ERL
    suspend_all,        \* events.suspend_all
    events,             \* event id -> [enabled, triggered, stopped, gosub]
    scalars,            \* the scalar variables
    output,             \* the values written by PRINT
    status,             \* parse(): "parsing", "returned", or the signal it raised
    hist                \* history of the run: the last iteration (what ran, from
                        \* which state, what the try block raised) and the open call

vars == <<program, line_numbers, direct_line, run_mode, program_pos, direct_pos,
          current_statement, gosub_stack, for_stack, while_stack, data_pos,
          on_error, error_handle_mode, error_resume, error_num, error_pos,
          suspend_all, events, scalars, output, status, hist>>

\* no position given with a RunError
NOPOS == -2

\* the engine state as one value; err, epos, sig: the exception in flight
\* (err: a RunError number; sig: a control signal)
Machine ==
    [run_mode |-> run_mode, ppos |-> program_pos, dpos |-> direct_pos,
     current_statement |-> current_statement, gosub_stack |-> gosub_stack,
     for_stack |-> for_stack, while_stack |-> while_stack, data_pos |-> data_pos,
     on_error |-> on_error, error_handle_mode |-> error_handle_mode,
     error_resume |-> error_resume, error_num |-> error_num,
     error_pos |-> error_pos, suspend_all |-> suspend_all, events |-> events,
     scalars |-> scalars, output |-> output,
     err |-> 0, epos |-> NOPOS, sig |-> "none"]

\* the buffer of a stream: TRUE program_code, FALSE direct_line
Buf(s) == IF s THEN program ELSE direct_line
Tell(m, s) == IF s THEN m.ppos ELSE m.dpos
Seek(m, s, p) == IF s THEN [m EXCEPT !.ppos = p] ELSE [m EXCEPT !.dpos = p]
Raise(m, e) == [m EXCEPT !.err = e, !.epos = NOPOS]
RaiseAt(m, e, pos) == [m EXCEPT !.err = e, !.epos = pos]
Failed(m) == m.err # 0 \/ m.sig # "none"

(***************************************************************************)
(* Jumps.                                                                  *)
(***************************************************************************)
\* Interpreter.set_pointer; pos = NONE: position at the end of the stream
set_pointer(m, new_runmode, pos) ==
    Seek([m EXCEPT !.run_mode = new_runmode], new_runmode,
         IF pos # NONE THEN pos ELSE Len(Buf(new_runmode)))

\* Interpreter.get_codestream
get_codestream(m) == m.run_mode

\* a faulty jump, to validate C24: it moves the program cursor and leaves the
\* run mode
jump_keeps_mode(m, jumpnum) ==
    IF jumpnum = NONE THEN set_pointer(m, TRUE, 0)
    ELSE IF jumpnum \in DOMAIN line_numbers
    THEN Seek(m, TRUE, line_numbers[jumpnum])
    ELSE Raise(m, UNDEFINED_LINE_NUMBER)

\* Interpreter.jump
jump(m, jumpnum) ==
    IF jumpnum = NONE THEN set_pointer(m, TRUE, 0)
    ELSE IF jumpnum \in DOMAIN line_numbers
    THEN set_pointer(m, TRUE, line_numbers[jumpnum])
    ELSE Raise(m, UNDEFINED_LINE_NUMBER)

\* a faulty jump_sub, to validate C38: the frame is pushed before the jump
jump_sub_pushes_first(m, jumpnum, handler) ==
    jump([m EXCEPT !.gosub_stack =
             Append(@, [pos |-> Tell(m, get_codestream(m)), run_mode |-> TRUE,
                        handler |-> handler])],
         jumpnum)

\* Interpreter.jump_sub; handler: 0 for GOSUB, an event id for an event trap.
\* The frame takes the run mode the engine is in once the jump is made.
jump_sub(m, jumpnum, handler) ==
    LET pushed(pos, m1) ==
            IF Failed(m1) THEN m1
            ELSE [m1 EXCEPT !.gosub_stack =
                     Append(@, [pos |-> pos, run_mode |-> m1.run_mode,
                                handler |-> handler])]
    IN pushed(Tell(m, get_codestream(m)), jump(m, jumpnum))

\* a faulty return_, to validate C21: the event of the frame stays stopped
return_stays_stopped(m, jumpnum) ==
    LET back(m3, cs) ==
            Seek(m3, cs, skip_to(Buf(cs), Tell(m3, cs), tk_END_STATEMENT, TRUE))
        popped(top, m1) ==
            IF jumpnum = NONE
            THEN back(set_pointer(m1, top.run_mode, top.pos), top.run_mode)
            ELSE jump(m1, jumpnum)
    IN IF m.gosub_stack = <<>> THEN Raise(m, RETURN_WITHOUT_GOSUB)
       ELSE popped(m.gosub_stack[Len(m.gosub_stack)],
                   [m EXCEPT !.gosub_stack = SubSeq(@, 1, Len(@) - 1)])

\* a faulty return_, to validate C23: with an empty stack it halts the engine
\* before it raises
return_halts(m, jumpnum) ==
    LET back(m3, cs) ==
            Seek(m3, cs, skip_to(Buf(cs), Tell(m3, cs), tk_END_STATEMENT, TRUE))
        unstopped(top, m2) ==
            IF jumpnum = NONE
            THEN back(set_pointer(m2, top.run_mode, top.pos), top.run_mode)
            ELSE jump(m2, jumpnum)
        popped(top, m1) ==
            unstopped(top, IF top.handler # 0
                           THEN [m1 EXCEPT !.events[top.handler].stopped = FALSE]
                           ELSE m1)
    IN IF m.gosub_stack = <<>>
       THEN Raise(set_pointer(m, FALSE, NONE), RETURN_WITHOUT_GOSUB)
       ELSE popped(m.gosub_stack[Len(m.gosub_stack)],
                   [m EXCEPT !.gosub_stack = SubSeq(@, 1, Len(@) - 1)])

\* Interpreter.return_
return_(m, jumpnum) ==
    LET back(m3, cs) ==
            Seek(m3, cs, skip_to(Buf(cs), Tell(m3, cs), tk_END_STATEMENT, TRUE))
        unstopped(top, m2) ==
            IF jumpnum = NONE
            THEN back(set_pointer(m2, top.run_mode, top.pos), top.run_mode)
            ELSE jump(m2, jumpnum)
        popped(top, m1) ==
            unstopped(top, IF top.handler # 0
                           THEN [m1 EXCEPT !.events[top.handler].stopped = FALSE]
                           ELSE m1)
    IN IF m.gosub_stack = <<>> THEN Raise(m, RETURN_WITHOUT_GOSUB)
       ELSE popped(m.gosub_stack[Len(m.gosub_stack)],
                   [m EXCEPT !.gosub_stack = SubSeq(@, 1, Len(@) - 1)])

(***************************************************************************)
(* Events and error trapping.                                              *)
(***************************************************************************)
EventIds == DOMAIN events

\* Interpreter.handle_basic_events: the loop over events.enabled, from event e
RECURSIVE handle_events_from(_, _)
handle_events_from(m, e) ==
    IF e \notin DOMAIN m.events \/ Failed(m) THEN m
    ELSE IF /\ m.events[e].enabled /\ m.events[e].triggered
            /\ ~m.events[e].stopped /\ m.events[e].gosub # NONE
    THEN handle_events_from(
           jump_sub([m EXCEPT !.events[e].triggered = FALSE,
                              !.events[e].stopped = TRUE], m.events[e].gosub, e),
           e + 1)
    ELSE handle_events_from(m, e + 1)

\* a faulty handle_basic_events, to validate C20: it dispatches while event
\* dispatch is suspended
handle_basic_events_suspended(m) ==
    IF ~m.run_mode THEN m ELSE handle_events_from(m, 1)

handle_basic_events(m) ==
    IF m.suspend_all \/ ~m.run_mode THEN m ELSE handle_events_from(m, 1)

\* a faulty trap_error, to validate C4: it dispatches while a handler is active
trap_error_while_handling(m) ==
    LET jumped(m2) ==
            IF Failed(m2) THEN m2
            ELSE [m2 EXCEPT !.error_handle_mode = TRUE, !.suspend_all = TRUE]
        recorded(m1) ==
            IF m1.on_error # NONE /\ m1.on_error # 0
            THEN jumped(jump([m1 EXCEPT !.error_resume =
                                    <<m1.current_statement, m1.run_mode>>,
                                    !.err = 0, !.epos = NOPOS],
                             m1.on_error))
            ELSE set_pointer([m1 EXCEPT !.error_handle_mode = FALSE], FALSE, NONE)
        at(pos) == recorded([m EXCEPT !.error_num = m.err, !.error_pos = pos,
                                      !.epos = pos])
    IN at(IF m.epos # NOPOS THEN m.epos
          ELSE IF m.run_mode THEN m.ppos - 1 ELSE -1)

\* a faulty trap_error, to validate C22: event dispatch goes on in the handler
trap_error_no_suspend(m) ==
    LET jumped(m2) ==
            IF Failed(m2) THEN m2 ELSE [m2 EXCEPT !.error_handle_mode = TRUE]
        recorded(m1) ==
            IF m1.on_error # NONE /\ m1.on_error # 0 /\ ~m1.error_handle_mode
            THEN jumped(jump([m1 EXCEPT !.error_resume =
                                    <<m1.current_statement, m1.run_mode>>,
                                    !.err = 0, !.epos = NOPOS],
                             m1.on_error))
            ELSE set_pointer([m1 EXCEPT !.error_handle_mode = FALSE], FALSE, NONE)
        at(pos) == recorded([m EXCEPT !.error_num = m.err, !.error_pos = pos,
                                      !.epos = pos])
    IN at(IF m.epos # NOPOS THEN m.epos
          ELSE IF m.run_mode THEN m.ppos - 1 ELSE -1)

\* Interpreter.trap_error, for the RunError in flight in m; the result has
\* err = 0 when the error was trapped, and keeps err when it is raised again
trap_error(m) ==
    LET jumped(m2) ==
            IF Failed(m2) THEN m2
            ELSE [m2 EXCEPT !.error_handle_mode = TRUE, !.suspend_all = TRUE]
        recorded(m1) ==
            IF m1.on_error # NONE /\ m1.on_error # 0 /\ ~m1.error_handle_mode
            THEN jumped(jump([m1 EXCEPT !.error_resume =
                                    <<m1.current_statement, m1.run_mode>>,
                                    !.err = 0, !.epos = NOPOS],
                             m1.on_error))
            ELSE set_pointer([m1 EXCEPT !.error_handle_mode = FALSE], FALSE, NONE)
        at(pos) == recorded([m EXCEPT !.error_num = m.err, !.error_pos = pos,
                                      !.epos = pos])
    IN at(IF m.epos # NOPOS THEN m.epos
          ELSE IF m.run_mode THEN m.ppos - 1 ELSE -1)

\* on_error_goto_ without the re-raise inside an error handler
on_error_goto_no_reraise(m, linenum) ==
    IF linenum # 0 /\ linenum \notin DOMAIN line_numbers
    THEN Raise(m, UNDEFINED_LINE_NUMBER)
    ELSE [m EXCEPT !.on_error = linenum]

\* Interpreter.on_error_goto_
on_error_goto_(m, linenum) ==
    IF linenum # 0 /\ linenum \notin DOMAIN line_numbers
    THEN Raise(m, UNDEFINED_LINE_NUMBER)
    ELSE IF linenum = 0 /\ m.error_handle_mode
    THEN RaiseAt([m EXCEPT !.on_error = linenum], m.error_num, m.error_pos)
    ELSE [m EXCEPT !.on_error = linenum]

\* StatementParser._parse_resume_args_iter: next for RESUME NEXT, else num is
\* NONE or the line number
parse_resume_args(buf, p) ==
    LET ended(r, e) ==
            IF r.err # 0 THEN r ELSE [r EXCEPT !.pos = e.pos, !.err = e.err]
        where(r) == ended(r, require_end(buf, r.pos))
        line(j) == [num |-> j.num, next |-> FALSE, pos |-> j.pos, err |-> j.err]
        at(q, c) ==
            IF c = tk_NEXT
            THEN where([num |-> NONE, next |-> TRUE, pos |-> q + 1, err |-> 0])
            ELSE IF c \in tk_END_STATEMENT
            THEN where([num |-> NONE, next |-> FALSE, pos |-> q, err |-> 0])
            ELSE where(line(parse_jumpnum(buf, q)))
        first(q) == at(q, Byte(buf, q))
    IN first(skip_blank(buf, p))

\* a faulty resume_, to validate C6: RESUME <line> leaves the handler active
resume_keep_handling(m, s) ==
    LET go(a, m1, start_statement, runmode) ==
            IF a.next
            THEN Seek(set_pointer(m1, runmode, start_statement), runmode,
                      skip_to(Buf(runmode), start_statement, tk_END_STATEMENT, FALSE))
            ELSE IF a.num = NONE \/ a.num = 0
            THEN set_pointer(m1, runmode, start_statement)
            ELSE jump([m1 EXCEPT !.error_handle_mode = m.error_handle_mode], a.num)
        parsed(a, m0) ==
            IF a.err # 0 THEN Raise(m0, a.err)
            ELSE go(a, [m0 EXCEPT !.error_num = 0, !.error_handle_mode = FALSE,
                                  !.error_resume = <<>>, !.suspend_all = FALSE],
                    m.error_resume[1], m.error_resume[2])
        args(a) == parsed(a, Seek(m, s, a.pos))
    IN IF m.error_resume = <<>>
       THEN Raise([m EXCEPT !.on_error = 0], RESUME_WITHOUT_ERROR)
       ELSE args(parse_resume_args(Buf(s), Tell(m, s)))

\* resume_ that leaves the trap target alone when there is no resume-context
resume_keeps_trap(m, s) ==
    LET go(a, m1, start_statement, runmode) ==
            IF a.next
            THEN Seek(set_pointer(m1, runmode, start_statement), runmode,
                      skip_to(Buf(runmode), start_statement, tk_END_STATEMENT, FALSE))
            ELSE IF a.num = NONE \/ a.num = 0
            THEN set_pointer(m1, runmode, start_statement)
            ELSE jump(m1, a.num)
        parsed(a, m0) ==
            IF a.err # 0 THEN Raise(m0, a.err)
            ELSE go(a, [m0 EXCEPT !.error_num = 0, !.error_handle_mode = FALSE,
                                  !.error_resume = <<>>, !.suspend_all = FALSE],
                    m.error_resume[1], m.error_resume[2])
        args(a) == parsed(a, Seek(m, s, a.pos))
    IN IF m.error_resume = <<>>
       THEN Raise(m, RESUME_WITHOUT_ERROR)
       ELSE args(parse_resume_args(Buf(s), Tell(m, s)))

\* Interpreter.resume_, on the stream s of the statement
resume_(m, s) ==
    LET go(a, m1, start_statement, runmode) ==
            IF a.next
            THEN Seek(set_pointer(m1, runmode, start_statement), runmode,
                      skip_to(Buf(runmode), start_statement, tk_END_STATEMENT, FALSE))
            ELSE IF a.num = NONE \/ a.num = 0
            THEN set_pointer(m1, runmode, start_statement)
            ELSE jump(m1, a.num)
        parsed(a, m0) ==
            IF a.err # 0 THEN Raise(m0, a.err)
            ELSE go(a, [m0 EXCEPT !.error_num = 0, !.error_handle_mode = FALSE,
                                  !.error_resume = <<>>, !.suspend_all = FALSE],
                    m.error_resume[1], m.error_resume[2])
        args(a) == parsed(a, Seek(m, s, a.pos))
    IN IF m.error_resume = <<>>
       THEN Raise([m EXCEPT !.on_error = 0], RESUME_WITHOUT_ERROR)
       ELSE args(parse_resume_args(Buf(s), Tell(m, s)))

(***************************************************************************)
(* Loops: FOR and NEXT.                                                    *)
(***************************************************************************)
\* CodeStream.require_read for a one-byte token
require_read(buf, p, in_range) ==
    LET at(q) == IF Byte(buf, q) # EOF /\ Byte(buf, q) \in in_range
                 THEN [c |-> Byte(buf, q), pos |-> q + 1, err |-> 0]
                 ELSE [c |-> EOF, pos |-> q, err |-> STX]
    IN at(skip_blank(buf, p))

sign(x) == IF x > 0 THEN 1 ELSE IF x < 0 THEN -1 ELSE 0

\* StatementParser._parse_for_args_iter as Interpreter.for_ consumes it
parse_for_args(buf, p, sc) ==
    LET bad(pos, err) == [varname |-> <<>>, start |-> 0, stop |-> 0, step |-> 0,
                          pos |-> pos, err |-> err]
        ended(n, e1, e2, step, fin) ==
            IF fin.err # 0 THEN bad(fin.pos, fin.err)
            ELSE [varname |-> n.name, start |-> e1.val, stop |-> e2.val,
                  step |-> step, pos |-> fin.pos, err |-> 0]
        with_step(n, e1, e2, e3) ==
            IF e3.err # 0 THEN bad(e3.pos, e3.err)
            ELSE ended(n, e1, e2, e3.val, require_end(buf, e3.pos))
        step_at(n, e1, e2, q) ==
            IF Byte(buf, q) = tk_STEP
            THEN with_step(n, e1, e2, parse_expression(buf, q + 1, sc))
            ELSE ended(n, e1, e2, 1, require_end(buf, q))
        with_stop(n, e1, e2) ==
            IF e2.err # 0 THEN bad(e2.pos, e2.err)
            ELSE step_at(n, e1, e2, skip_blank(buf, e2.pos))
        with_to(n, e1, to) ==
            IF to.err # 0 THEN bad(to.pos, to.err)
            ELSE with_stop(n, e1, parse_expression(buf, to.pos, sc))
        with_start(n, e1) ==
            IF e1.err # 0 THEN bad(e1.pos, e1.err)
            ELSE IF n.name[Len(n.name)] \in {35, 36} THEN bad(e1.pos, TYPE_MISMATCH)
            ELSE with_to(n, e1, require_read(buf, e1.pos, {tk_TO}))
        with_eq(n, eq) ==
            IF eq.err # 0 THEN bad(eq.pos, eq.err)
            ELSE with_start(n, parse_expression(buf, eq.pos, sc))
        with_name(n) ==
            IF n.err # 0 THEN bad(n.pos, n.err)
            ELSE with_eq(n, require_read(buf, n.pos, {tk_O_EQ}))
    IN with_name(parse_name(buf, p))

\* Interpreter._find_next: pos is where the cursor is left
find_next(buf, endforpos, varname) ==
    LET ret(nextpos, pos, err) == [forpos |-> endforpos, nextpos |-> nextpos,
                                   pos |-> pos, err |-> err]
        \* n: the name after NEXT or the comma, <<>> when there is none
        named(comma, n) ==
            IF n.err # 0 THEN ret(n.pos, n.pos, n.err)
            ELSE IF (comma \/ n.name # <<>>) /\ n.name # varname
            THEN ret(n.pos, n.pos, NEXT_WITHOUT_FOR)
            ELSE ret(n.pos, endforpos, 0)
        name_at(comma, q1) ==
            IF Byte(buf, q1) \notin tk_END_STATEMENT
            THEN named(comma, parse_name(buf, q1))
            ELSE named(comma, [name |-> <<>>, pos |-> q1, err |-> 0])
        at(q) ==
            IF Byte(buf, q) \notin {tk_NEXT, COMMA}
            THEN ret(endforpos, endforpos, FOR_WITHOUT_NEXT)
            ELSE name_at(Byte(buf, q) = COMMA, skip_blank(buf, Adv(buf, q, 1)))
        block_end(b) == at(skip_blank(buf, b))
    IN block_end(skip_block(buf, endforpos, tk_FOR, tk_NEXT, TRUE))

\* a faulty search, to validate C11: only the top frame is looked at
find_frame_top(stack, pos, depth) ==
    IF Len(stack) > 0 /\ stack[Len(stack)].nextpos = pos THEN 0 ELSE NONE

\* the depth of the innermost FOR frame whose nextpos is pos, or NONE
RECURSIVE find_frame(_, _, _)
find_frame(stack, pos, depth) ==
    IF depth >= Len(stack) THEN NONE
    ELSE IF stack[Len(stack) - depth].nextpos = pos THEN depth
    ELSE find_frame(stack, pos, depth + 1)

\* a faulty iterate_loop, to validate C10: the loop ends on reaching the stop
iterate_loop_before_stop(m) ==
    LET ins == get_codestream(m)
        counted(stack, fr, m1) ==
            IF (IF fr.sgn > 0 THEN m1.scalars[fr.counter] >= fr.stop
                ELSE fr.stop >= m1.scalars[fr.counter])
            THEN [m |-> [m1 EXCEPT !.for_stack = SubSeq(stack, 1, Len(stack) - 1)],
                  cont |-> FALSE]
            ELSE [m |-> Seek([m1 EXCEPT !.for_stack = stack], ins, fr.forpos),
                  cont |-> TRUE]
        frame(stack, fr) ==
            counted(stack, fr, [m EXCEPT !.scalars[fr.counter] = @ + fr.step])
        dropped(stack) == frame(stack, stack[Len(stack)])
        found(depth) ==
            IF depth = NONE
            THEN [m |-> Raise(m, NEXT_WITHOUT_FOR), cont |-> FALSE]
            ELSE dropped(SubSeq(m.for_stack, 1, Len(m.for_stack) - depth))
    IN found(find_frame(m.for_stack, Tell(m, ins), 0))

\* Interpreter.iterate_loop: cont is its result (the loop goes on)
iterate_loop(m) ==
    LET ins == get_codestream(m)
        counted(stack, fr, m1) ==
            IF (IF fr.sgn > 0 THEN m1.scalars[fr.counter] > fr.stop
                ELSE fr.stop > m1.scalars[fr.counter])
            THEN [m |-> [m1 EXCEPT !.for_stack = SubSeq(stack, 1, Len(stack) - 1)],
                  cont |-> FALSE]
            ELSE [m |-> Seek([m1 EXCEPT !.for_stack = stack], ins, fr.forpos),
                  cont |-> TRUE]
        frame(stack, fr) ==
            counted(stack, fr, [m EXCEPT !.scalars[fr.counter] = @ + fr.step])
        dropped(stack) == frame(stack, stack[Len(stack)])
        found(depth) ==
            IF depth = NONE
            THEN [m |-> Raise(m, NEXT_WITHOUT_FOR), cont |-> FALSE]
            ELSE dropped(SubSeq(m.for_stack, 1, Len(m.for_stack) - depth))
    IN found(find_frame(m.for_stack, Tell(m, ins), 0))

\* a faulty for_, to validate C34: the variable is set before the NEXT is found
for_assigns_first(m, s) ==
    LET pushed(a, f, ins, m2) ==
            IF (IF sign(a.step) > 0 THEN a.start > a.stop ELSE a.stop > a.start)
            THEN iterate_loop(Seek(m2, ins, f.nextpos)).m
            ELSE m2
        found(a, f, ins, m1) ==
            IF f.err # 0 THEN Raise([m1 EXCEPT !.scalars[a.varname] = a.start], f.err)
            ELSE pushed(a, f, ins,
                   [m1 EXCEPT !.scalars[a.varname] = a.start,
                              !.for_stack = Append(@,
                                  [counter |-> a.varname, stop |-> a.stop,
                                   step |-> a.step, sgn |-> sign(a.step),
                                   forpos |-> f.forpos, nextpos |-> f.nextpos])])
        searched(a, f, ins, m0) == found(a, f, ins, Seek(m0, ins, f.pos))
        on(a, ins, m0) ==
            searched(a, find_next(Buf(ins), Tell(m0, ins), a.varname), ins, m0)
        parsed(a, m0) ==
            IF a.err # 0 THEN Raise(m0, a.err) ELSE on(a, get_codestream(m0), m0)
        args(a) == parsed(a, Seek(m, s, a.pos))
    IN args(parse_for_args(Buf(s), Tell(m, s), m.scalars))

\* Interpreter.for_, on the stream s of the statement
for_(m, s) ==
    LET pushed(a, f, ins, m2) ==
            IF (IF sign(a.step) > 0 THEN a.start > a.stop ELSE a.stop > a.start)
            THEN iterate_loop(Seek(m2, ins, f.nextpos)).m
            ELSE m2
        found(a, f, ins, m1) ==
            IF f.err # 0 THEN Raise(m1, f.err)
            ELSE pushed(a, f, ins,
                   [m1 EXCEPT !.scalars[a.varname] = a.start,
                              !.for_stack = Append(@,
                                  [counter |-> a.varname, stop |-> a.stop,
                                   step |-> a.step, sgn |-> sign(a.step),
                                   forpos |-> f.forpos, nextpos |-> f.nextpos])])
        searched(a, f, ins, m0) == found(a, f, ins, Seek(m0, ins, f.pos))
        on(a, ins, m0) ==
            searched(a, find_next(Buf(ins), Tell(m0, ins), a.varname), ins, m0)
        parsed(a, m0) ==
            IF a.err # 0 THEN Raise(m0, a.err) ELSE on(a, get_codestream(m0), m0)
        args(a) == parsed(a, Seek(m, s, a.pos))
    IN args(parse_for_args(Buf(s), Tell(m, s), m.scalars))

\* a faulty next_, to validate C28: the entries behind the first are left
next_first(m, s) ==
    LET iterated(it) ==
            IF Failed(it.m) \/ it.cont THEN it.m
            ELSE Seek(it.m, s, skip_blank(Buf(s), Tell(it.m, s)))
        named(n) ==
            IF n.err # 0 THEN Raise(Seek(m, s, n.pos), n.err)
            ELSE iterated(iterate_loop(Seek(m, s, n.pos)))
        at(q) ==
            IF Byte(Buf(s), q) \notin (tk_END_STATEMENT \cup {COMMA})
            THEN named(parse_name(Buf(s), q))
            ELSE named([name |-> <<>>, pos |-> q, err |-> 0])
    IN at(skip_blank(Buf(s), Tell(m, s)))

\* Interpreter.next_ over StatementParser._parse_next_args_iter
RECURSIVE next_(_, _)
next_(m, s) ==
    LET more(m1, q2) ==
            IF Byte(Buf(s), q2) = COMMA THEN next_(Seek(m1, s, q2 + 1), s)
            ELSE Seek(m1, s, q2)
        iterated(it) ==
            IF Failed(it.m) \/ it.cont THEN it.m
            ELSE more(it.m, skip_blank(Buf(s), Tell(it.m, s)))
        named(n) ==
            IF n.err # 0 THEN Raise(Seek(m, s, n.pos), n.err)
            ELSE iterated(iterate_loop(Seek(m, s, n.pos)))
        at(q) ==
            IF Byte(Buf(s), q) \notin (tk_END_STATEMENT \cup {COMMA})
            THEN named(parse_name(Buf(s), q))
            ELSE named([name |-> <<>>, pos |-> q, err |-> 0])
    IN at(skip_blank(Buf(s), Tell(m, s)))

(***************************************************************************)
(* Loops: WHILE and WEND.                                                  *)
(***************************************************************************)
\* Interpreter._find_wend, from the cursor whilepos just behind WHILE
find_wend(buf, whilepos) ==
    LET block_end(b) ==
            IF Byte(buf, b) # tk_WEND
            THEN [wendpos |-> NONE, err |-> WHILE_WITHOUT_WEND]
            ELSE [wendpos |-> skip_to(buf, Adv(buf, b, 1), tk_END_STATEMENT, TRUE),
                  err |-> 0]
    IN block_end(skip_block(buf, whilepos, tk_WHILE, tk_WEND, FALSE))

\* a faulty _check_while_condition, to validate C13: the frame of a loop
\* that has ended stays on the stack
check_while_condition_keep(m, ins, whilepos) ==
    LET ended(m1, e) ==
            IF e.err # 0 THEN Raise(Seek(m1, ins, e.pos), e.err)
            ELSE Seek(m1, ins, e.pos)
        value(e) ==
            IF e.err # 0 THEN Raise(Seek(m, ins, e.pos), e.err)
            ELSE IF e.val # 0
            THEN ended([m EXCEPT !.current_statement = whilepos - 2],
                       require_end(Buf(ins), e.pos))
            ELSE Seek(m, ins, m.while_stack[Len(m.while_stack)].wendpos)
    IN value(parse_expression(Buf(ins), whilepos, m.scalars))

\* Interpreter._check_while_condition
check_while_condition(m, ins, whilepos) ==
    LET ended(m1, e) ==
            IF e.err # 0 THEN Raise(Seek(m1, ins, e.pos), e.err)
            ELSE Seek(m1, ins, e.pos)
        value(e) ==
            IF e.err # 0 THEN Raise(Seek(m, ins, e.pos), e.err)
            ELSE IF e.val # 0
            THEN ended([m EXCEPT !.current_statement = whilepos - 2],
                       require_end(Buf(ins), e.pos))
            ELSE Seek([m EXCEPT !.while_stack = SubSeq(@, 1, Len(@) - 1)], ins,
                      m.while_stack[Len(m.while_stack)].wendpos)
    IN value(parse_expression(Buf(ins), whilepos, m.scalars))

\* Interpreter.while_
while_(m) ==
    LET pushed(ins, whilepos, f) ==
            IF f.err # 0 THEN Raise(Seek(m, ins, whilepos), f.err)
            ELSE check_while_condition(
                   [m EXCEPT !.while_stack =
                       Append(@, [whilepos |-> whilepos, wendpos |-> f.wendpos])],
                   ins, whilepos)
        on(ins) == pushed(ins, Tell(m, ins), find_wend(Buf(ins), Tell(m, ins)))
    IN on(get_codestream(m))

\* Interpreter.wend_: the loop that pops the frames of other loops
RECURSIVE wend_pop(_, _)
wend_pop(stack, pos) ==
    IF stack = <<>> THEN <<>>
    ELSE IF stack[Len(stack)].wendpos = pos THEN stack
    ELSE wend_pop(SubSeq(stack, 1, Len(stack) - 1), pos)

\* a faulty wend_, to validate C12: the loop is entered again through WHILE
wend_reenter(m) ==
    LET matched(ins, stack) ==
            IF stack = <<>>
            THEN Raise([m EXCEPT !.while_stack = <<>>], WEND_WITHOUT_WHILE)
            ELSE check_while_condition(
                   [m EXCEPT !.while_stack = Append(stack, stack[Len(stack)])],
                   ins, stack[Len(stack)].whilepos)
        on(ins) == matched(ins, wend_pop(m.while_stack, Tell(m, ins)))
    IN on(get_codestream(m))

\* a faulty wend_, to validate C14: the top frame is taken whatever its WEND
wend_top_frame(m) ==
    LET matched(ins, stack) ==
            IF stack = <<>>
            THEN Raise([m EXCEPT !.while_stack = <<>>], WEND_WITHOUT_WHILE)
            ELSE check_while_condition([m EXCEPT !.while_stack = stack], ins,
                                       stack[Len(stack)].whilepos)
        on(ins) == matched(ins, m.while_stack)
    IN on(get_codestream(m))

\* Interpreter.wend_
wend_(m) ==
    LET matched(ins, stack) ==
            IF stack = <<>>
            THEN Raise([m EXCEPT !.while_stack = <<>>], WEND_WITHOUT_WHILE)
            ELSE check_while_condition([m EXCEPT !.while_stack = stack], ins,
                                       stack[Len(stack)].whilepos)
        on(ins) == matched(ins, wend_pop(m.while_stack, Tell(m, ins)))
    IN on(get_codestream(m))

(***************************************************************************)
(* ON n GOTO / ON n GOSUB.                                                 *)
(***************************************************************************)
\* Interpreter.on_jump_, the loop over the jumps that _parse_on_jump_args_iter
\* yields one at a time: p is where the parser goes on, i the index of the
\* jump it yields next
RECURSIVE on_jump_loop(_, _, _, _, _, _)
on_jump_loop(m, s, p, i, onvar, jump_type) ==
    LET \* the parser has ended the list; last: the index of the last jump
        ended(e, last) ==
            IF e.err # 0 THEN Raise(Seek(m, s, e.pos), e.err)
            ELSE IF last = onvar - 2 THEN Raise(Seek(m, s, e.pos), STX)
            ELSE Seek(m, s, e.pos)
        finish(q, last) == ended(require_end(Buf(s), q), last)
        comma(q) ==
            IF Byte(Buf(s), q) = COMMA
            THEN on_jump_loop(m, s, q + 1, i + 1, onvar, jump_type)
            ELSE finish(q, i)
        yielded(j) ==
            IF j.err # 0 THEN Raise(Seek(m, s, j.pos), j.err)
            ELSE IF j.num = NONE THEN finish(j.pos, i - 1)
            ELSE IF i = onvar - 1
            THEN IF jump_type = tk_GOTO THEN jump(Seek(m, s, j.pos), j.num)
                 ELSE jump_sub(Seek(m, s, j.pos), j.num, 0)
            ELSE comma(skip_blank(Buf(s), j.pos))
    IN yielded(parse_optional_jumpnum(Buf(s), p))

\* Interpreter.on_jump_ over StatementParser._parse_on_jump_args_iter
on_jump_(m, s) ==
    LET typed(e, t) ==
            IF t.err # 0 THEN Raise(Seek(m, s, t.pos), t.err)
            ELSE on_jump_loop(m, s, t.pos, 0, e.val, t.c)
        value(e) ==
            IF e.err # 0 THEN Raise(Seek(m, s, e.pos), e.err)
            ELSE IF e.val < 0 \/ e.val > 255 THEN Raise(Seek(m, s, e.pos), IFC)
            ELSE typed(e, require_read(Buf(s), e.pos, {tk_GOTO, tk_GOSUB}))
    IN value(parse_expression(Buf(s), Tell(m, s), m.scalars))

(***************************************************************************)
(* IF.                                                                     *)
(***************************************************************************)
\* a faulty search, to validate C29: the first ELSE is taken, nested or not
RECURSIVE if_else_first(_, _, _)
if_else_first(buf, p, nesting_level) ==
    LET colon(q) ==
            IF Byte(buf, q) # tk_ELSE THEN if_else_first(buf, q, nesting_level)
            ELSE q + 1
        found(q) ==
            IF Byte(buf, q) = tk_IF THEN if_else_first(buf, q + 1, nesting_level + 1)
            ELSE IF Byte(buf, q) = COLON THEN colon(skip_blank(buf, q + 1))
            ELSE q
    IN found(skip_to(buf, p, tk_END_STATEMENT \cup {tk_IF}, TRUE))

\* Interpreter.if_, the search for the ELSE of a zero condition: the cursor
\* behind the ELSE of this IF, or on the end of the line
RECURSIVE if_else(_, _, _)
if_else(buf, p, nesting_level) ==
    LET colon(q) ==
            IF Byte(buf, q) # tk_ELSE THEN if_else(buf, q, nesting_level)
            ELSE IF nesting_level > 0 THEN if_else(buf, q + 1, nesting_level - 1)
            ELSE q + 1
        found(q) ==
            IF Byte(buf, q) = tk_IF THEN if_else(buf, q + 1, nesting_level + 1)
            ELSE IF Byte(buf, q) = COLON THEN colon(skip_blank(buf, q + 1))
            ELSE q
    IN found(skip_to(buf, p, tk_END_STATEMENT \cup {tk_IF}, TRUE))

\* Interpreter.if_, the condition: the cursor stays behind THEN or goes to ELSE
if_condition(m, s, val, p) ==
    IF val # 0 THEN Seek(m, s, p) ELSE Seek(m, s, if_else(Buf(s), p, 0))

\* Interpreter.if_ over StatementParser._parse_if_args_iter
if_(m, s) ==
    LET number(m1, j) ==
            IF j.err # 0 THEN Raise(Seek(m1, s, j.pos), j.err)
            ELSE jump(Seek(m1, s, j.pos), j.num)
        branch(m1, q) ==
            IF Byte(Buf(s), q) = tk_T_UINT THEN number(m1, parse_jumpnum(Buf(s), q))
            ELSE Seek(m1, s, q)
        chosen(m1) == branch(m1, skip_blank(Buf(s), Tell(m1, s)))
        then(e, t) ==
            IF t.err # 0 THEN Raise(Seek(m, s, t.pos), t.err)
            ELSE chosen(if_condition(m, s, e.val, t.pos))
        comma(e, q) ==
            then(e, require_read(Buf(s), IF Byte(Buf(s), q) = COMMA THEN q + 1 ELSE q,
                                 {tk_THEN, tk_GOTO}))
        condition(e) ==
            IF e.err # 0 THEN Raise(Seek(m, s, e.pos), e.err)
            ELSE comma(e, skip_blank(Buf(s), e.pos))
    IN condition(parse_expression(Buf(s), Tell(m, s), m.scalars))

(***************************************************************************)
(* DATA: READ and RESTORE.                                                 *)
(***************************************************************************)
\* CodeStream.read_to: the cursor on the first byte in findrange, or at the end
RECURSIVE read_to(_, _, _)
read_to(buf, p, findrange) ==
    IF Byte(buf, p) = EOF \/ Byte(buf, p) \in findrange THEN p
    ELSE read_to(buf, p + 1, findrange)

\* CodeStream.read_string: the cursor behind the string literal that opens at p
read_string(buf, p) ==
    LET closed(q) == IF Byte(buf, q) = QUOTE THEN q + 1 ELSE q
    IN IF Byte(buf, p) # QUOTE THEN p
       ELSE closed(read_to(buf, p + 1, {QUOTE} \cup tk_END_LINE))

\* str.strip: the word without the leading and trailing bytes in chars
RECURSIVE strip(_, _)
strip(word, chars) ==
    IF word = <<>> THEN word
    ELSE IF Head(word) \in chars THEN strip(Tail(word), chars)
    ELSE IF word[Len(word)] \in chars THEN strip(SubSeq(word, 1, Len(word) - 1), chars)
    ELSE word

\* str.rstrip: the word without the trailing bytes in chars
RECURSIVE rstrip(_, _)
rstrip(word, chars) ==
    IF word = <<>> THEN word
    ELSE IF word[Len(word)] \in chars THEN rstrip(SubSeq(word, 1, Len(word) - 1), chars)
    ELSE word

(***************************************************************************)
(* CodeStream.read_number: numeric literals in text.                       *)
(***************************************************************************)
hexdigits == Digits \cup (65..70) \cup (97..102)
octdigits == 48..55

\* the loop of CodeStream._read_hex, the cursor behind the H
RECURSIVE read_hex_loop(_, _, _)
read_hex_loop(buf, p, word) ==
    IF Byte(buf, p) \in hexdigits THEN read_hex_loop(buf, p + 1, Append(word, Byte(buf, p)))
    ELSE [found |-> TRUE, word |-> word, pos |-> p]

\* CodeStream._read_hex, the cursor on the H
read_hex(buf, p) == read_hex_loop(buf, Adv(buf, p, 1), <<>>)

RECURSIVE read_oct_loop(_, _, _)
read_oct_loop(buf, p, word) ==
    IF Byte(buf, p) \in octdigits \cup blanks
    THEN read_oct_loop(buf, p + 1, Append(word, Byte(buf, p)))
    ELSE [found |-> TRUE, word |-> word, pos |-> p]

\* CodeStream._read_oct, the O being optional
read_oct(buf, p) ==
    read_oct_loop(buf, IF upper(Byte(buf, p)) = 79 THEN p + 1 ELSE p, <<>>)

\* the loop of CodeStream._read_dec: the word with its blanks, and the cursor
RECURSIVE read_dec_loop(_, _, _, _, _)
read_dec_loop(buf, p, word, have_exp, have_point) ==
    LET c == upper(Byte(buf, p))
        left(w, q) == [word |-> w, pos |-> q]
    IN IF Byte(buf, p) = EOF THEN left(word, p)
       ELSE IF c = 46 /\ ~have_point /\ ~have_exp
       THEN read_dec_loop(buf, p + 1, Append(word, c), have_exp, TRUE)
       ELSE IF c \in {69, 68} /\ ~have_exp
       THEN IF c = 69 /\ upper(Byte(buf, p + 1)) \in {76, 81}
            THEN left(word, p)
            ELSE read_dec_loop(buf, p + 1, Append(word, c), TRUE, have_point)
       ELSE IF c \in {45, 43} /\ (word = <<>> \/ word[Len(word)] \in {69, 68})
       THEN read_dec_loop(buf, p + 1, Append(word, c), have_exp, have_point)
       ELSE IF c \in Digits \cup blanks \cup {28, 29, 31}
       THEN read_dec_loop(buf, p + 1, Append(word, c), have_exp, have_point)
       ELSE IF c \in {33, 35} /\ ~have_exp THEN left(Append(word, c), p + 1)
       ELSE IF c = 37 THEN left(word, p + 1)
       ELSE left(word, p)

\* CodeStream._read_dec
read_dec(buf, p) ==
    LET trimmed(r, trimword) ==
            [found |-> TRUE, word |-> strip(trimword, blanks),
             pos |-> r.pos - Len(r.word) + Len(trimword)]
        read(r) == trimmed(r, rstrip(r.word, blanks))
    IN read(read_dec_loop(buf, p, <<>>, FALSE, FALSE))

\* CodeStream.read_number: found is FALSE when it returns None
read_number(buf, p) ==
    LET c == Byte(buf, p)
        prefixed(h, r) == [r EXCEPT !.word = <<38, h>> \o @]
    IN IF c = EOF THEN [found |-> TRUE, word |-> <<>>, pos |-> p]
       ELSE IF c = 38
       THEN IF upper(Byte(buf, p + 1)) = 72
            THEN prefixed(72, read_hex(buf, p + 1))
            ELSE prefixed(79, read_oct(buf, p + 1))
       ELSE IF c \in Digits \cup {46, 43, 45} THEN read_dec(buf, p)
       ELSE [found |-> FALSE, word |-> <<>>, pos |-> p]

\* the bytes of the buffer from cursor a up to cursor b
Bytes(buf, a, b) == SubSeq(buf, a + 1, b)

\* values.from_repr for an unsigned decimal: ok is false where it returns None
RECURSIVE decimal(_, _)
decimal(word, acc) ==
    IF word = <<>> THEN acc ELSE decimal(Tail(word), 10 * acc + (Head(word) - 48))

from_repr(word) ==
    IF \A i \in 1..Len(word) : word[i] \in Digits
    THEN [ok |-> TRUE, val |-> decimal(word, 0)]
    ELSE [ok |-> FALSE, val |-> 0]

\* Interpreter.read_, the DATA field behind the cursor p (DATA or a comma has
\* been read): the word, the cursor behind it, and the error
read_field(buf, p) ==
    LET checked(word, q) ==
            [word |-> word, pos |-> q,
             err |-> IF Byte(buf, q) \in (tk_END_STATEMENT \cup {COMMA}) THEN 0 ELSE STX]
        quoted(p1, q, e) ==
            checked(IF q = p1 THEN strip(Bytes(buf, q, e), {QUOTE}) ELSE Bytes(buf, p1, e),
                    skip_blank(buf, e))
        word(p1, q) ==
            IF Byte(buf, q) = QUOTE THEN quoted(p1, q, read_string(buf, q))
            ELSE [word |-> strip(Bytes(buf, p1, q), blanks), pos |-> q, err |-> 0]
        from(p1) == word(p1, read_to(buf, p1, {COMMA, QUOTE} \cup tk_END_LINE
                                                \cup tk_END_STATEMENT))
    IN from(skip_blank(buf, p))

\* a faulty read of one variable, to validate C16: a comma inside a quoted
\* field ends the field
read_variable_split(m, name) ==
    LET stored(f, value) ==
            [m EXCEPT !.scalars[name] = value, !.data_pos = f.pos]
        field(f) ==
            IF name[Len(name)] = STR THEN stored(f, strip(f.word, {QUOTE}))
            ELSE IF ~from_repr(f.word).ok
            THEN RaiseAt([m EXCEPT !.ppos = m.data_pos], STX, m.data_pos - 1)
            ELSE stored(f, from_repr(f.word).val)
        unquoted(p1, q) ==
            field([word |-> strip(Bytes(program, p1, q), blanks), pos |-> q, err |-> 0])
        from(p1) == unquoted(p1, read_to(program, p1, {COMMA} \cup tk_END_STATEMENT))
        data(p0) ==
            IF Byte(program, p0) \notin {tk_DATA, COMMA} THEN Raise(m, OUT_OF_DATA)
            ELSE from(skip_blank(program, p0 + 1))
    IN data(IF Byte(program, m.data_pos) \in tk_END_STATEMENT
            THEN skip_to(program, m.data_pos, {tk_DATA}, TRUE)
            ELSE m.data_pos)

\* a faulty read of one variable, to validate C17: the program cursor stays
\* behind the DATA field
read_variable_moved(m, name) ==
    LET stored(f, value) ==
            [m EXCEPT !.ppos = f.pos, !.scalars[name] = value, !.data_pos = f.pos]
        field(f) ==
            IF f.err # 0 THEN Raise([m EXCEPT !.ppos = f.pos], f.err)
            ELSE IF name[Len(name)] = STR THEN stored(f, f.word)
            ELSE IF ~from_repr(f.word).ok
            THEN RaiseAt([m EXCEPT !.ppos = m.data_pos], STX, m.data_pos - 1)
            ELSE stored(f, from_repr(f.word).val)
        data(p0) ==
            IF Byte(program, p0) \notin {tk_DATA, COMMA} THEN Raise(m, OUT_OF_DATA)
            ELSE field(read_field(program, p0 + 1))
    IN data(IF Byte(program, m.data_pos) \in tk_END_STATEMENT
            THEN skip_to(program, m.data_pos, {tk_DATA}, TRUE)
            ELSE m.data_pos)

\* Interpreter.read_, the body of the loop for one variable: program_code is
\* moved to the DATA cursor and put back at current (m.ppos)
read_variable(m, name) ==
    LET stored(f, value) ==
            [m EXCEPT !.scalars[name] = value, !.data_pos = f.pos]
        field(f) ==
            IF f.err # 0 THEN Raise([m EXCEPT !.ppos = f.pos], f.err)
            ELSE IF name[Len(name)] = STR THEN stored(f, f.word)
            ELSE IF ~from_repr(f.word).ok
            THEN RaiseAt([m EXCEPT !.ppos = m.data_pos], STX, m.data_pos - 1)
            ELSE stored(f, from_repr(f.word).val)
        data(p0) ==
            IF Byte(program, p0) \notin {tk_DATA, COMMA} THEN Raise(m, OUT_OF_DATA)
            ELSE field(read_field(program, p0 + 1))
    IN data(IF Byte(program, m.data_pos) \in tk_END_STATEMENT
            THEN skip_to(program, m.data_pos, {tk_DATA}, TRUE)
            ELSE m.data_pos)

\* Interpreter.read_ over StatementParser._parse_var_list_iter
RECURSIVE read_(_, _)
read_(m, s) ==
    LET more(m1, q) ==
            IF Byte(Buf(s), q) = COMMA THEN read_(Seek(m1, s, q + 1), s)
            ELSE Seek(m1, s, q)
        assigned(m1) ==
            IF Failed(m1) THEN m1 ELSE more(m1, skip_blank(Buf(s), Tell(m1, s)))
        named(n) ==
            IF n.err # 0 THEN Raise(Seek(m, s, n.pos), n.err)
            ELSE assigned(read_variable(Seek(m, s, n.pos), n.name))
    IN named(parse_name(Buf(s), Tell(m, s)))

\* Interpreter.restore_ over StatementParser._parse_restore_args_iter
restore_(m, s) ==
    LET ended(m1, e, err) ==
            IF e.err # 0 THEN Raise(Seek(m1, s, e.pos), err) ELSE Seek(m1, s, e.pos)
        line(j) ==
            IF j.err # 0 THEN Raise(Seek(m, s, j.pos), j.err)
            ELSE IF j.num \notin DOMAIN line_numbers
            THEN Raise(Seek(m, s, j.pos), UNDEFINED_LINE_NUMBER)
            ELSE ended([m EXCEPT !.data_pos = line_numbers[j.num]],
                       require_end(Buf(s), j.pos), STX)
        at(q) ==
            IF Byte(Buf(s), q) = tk_T_UINT THEN line(parse_jumpnum(Buf(s), q))
            ELSE ended([m EXCEPT !.data_pos = 0], require_end(Buf(s), q),
                       UNDEFINED_LINE_NUMBER)
    IN at(skip_blank(Buf(s), Tell(m, s)))

(***************************************************************************)
(* CLEAR.                                                                  *)
(***************************************************************************)
\* events.reset: no event is trapped any more
events_reset(evs) ==
    [e \in DOMAIN evs |->
        [enabled |-> FALSE, triggered |-> FALSE, stopped |-> FALSE, gosub |-> NONE]]

\* Interpreter.init_error_trapping
init_error_trapping(m) ==
    [m EXCEPT !.error_handle_mode = FALSE, !.error_resume = <<>>, !.on_error = NONE]

\* Interpreter.clear_loop_stacks
clear_loop_stacks(m) == [m EXCEPT !.for_stack = <<>>, !.while_stack = <<>>]

\* Interpreter.clear
clear(m) ==
    LET loops(m1) == [clear_loop_stacks(m1) EXCEPT !.data_pos = 0]
        trapping(m1) == loops([m1 EXCEPT !.events = events_reset(m1.events)])
    IN trapping(init_error_trapping([m EXCEPT !.error_num = 0, !.error_pos = 0]))

\* StatementParser.parse_expression with allow_empty: empty is true where it
\* returns None
optional_expression(buf, p, vars0) ==
    LET value(e) == [empty |-> FALSE, pos |-> e.pos, err |-> e.err]
        at(q) == IF Byte(buf, q) \in tk_END_EXPRESSION
                 THEN [empty |-> TRUE, pos |-> q, err |-> 0]
                 ELSE value(parse_expression(buf, q, vars0))
    IN at(skip_blank(buf, p))

\* StatementParser._parse_clear_args_iter: the cursor behind the arguments
clear_args(buf, p, vars0) ==
    LET ended(e) == [pos |-> e.pos, err |-> e.err]
        third(exp2) ==
            IF exp2.err # 0 \/ exp2.empty THEN [pos |-> exp2.pos, err |-> STX]
            ELSE ended(require_end(buf, exp2.pos))
        second(exp1, q) ==
            IF exp1.err # 0 THEN [pos |-> exp1.pos, err |-> exp1.err]
            ELSE IF Byte(buf, q) = COMMA THEN third(optional_expression(buf, q + 1, vars0))
            ELSE IF exp1.empty THEN [pos |-> q, err |-> STX]
            ELSE ended(require_end(buf, q))
        first(e, q) ==
            IF e.err # 0 THEN [pos |-> e.pos, err |-> e.err]
            ELSE IF Byte(buf, q) = COMMA
            THEN second(optional_expression(buf, q + 1, vars0),
                        skip_blank(buf, optional_expression(buf, q + 1, vars0).pos))
            ELSE ended(require_end(buf, q))
    IN first(optional_expression(buf, p, vars0),
             skip_blank(buf, optional_expression(buf, p, vars0).pos))

\* the CLEAR statement: its arguments, then Interpreter.clear
clear_(m, s) ==
    LET parsed(a) == IF a.err # 0 THEN Raise(Seek(m, s, a.pos), a.err)
                     ELSE clear(Seek(m, s, a.pos))
    IN parsed(clear_args(Buf(s), Tell(m, s), m.scalars))

(***************************************************************************)
(* PRINT and LET (their handlers are collaborators of the engine).         *)
(***************************************************************************)
\* StatementParser._parse_print_args_iter: the values of the expressions
RECURSIVE print_args(_, _, _, _)
print_args(buf, p, sc, out) ==
    LET value(e) ==
            IF e.err # 0 THEN [out |-> out, pos |-> e.pos, err |-> e.err]
            ELSE print_args(buf, e.pos, sc, Append(out, e.val))
        at(q, d) ==
            IF d \in tk_END_STATEMENT THEN [out |-> out, pos |-> q, err |-> 0]
            ELSE IF d \in {COMMA, SEMICOLON} THEN print_args(buf, q + 1, sc, out)
            ELSE value(parse_expression(buf, q, sc))
        first(q) == at(q, Byte(buf, q))
    IN first(skip_blank(buf, p))

print_(m, s) ==
    LET printed(a, m0) ==
            IF a.err # 0 THEN Raise(m0, a.err) ELSE [m0 EXCEPT !.output = @ \o a.out]
        args(a) == printed(a, Seek(m, s, a.pos))
    IN args(print_args(Buf(s), Tell(m, s), m.scalars, <<>>))

\* StatementParser._parse_let_args_iter and Memory.let_, for a scalar
let_(m, s) ==
    LET value(n, e) ==
            IF e.err # 0 THEN Raise(Seek(m, s, e.pos), e.err)
            ELSE IF n.name \notin VarNames THEN Raise(Seek(m, s, e.pos), STX)
            ELSE [Seek(m, s, e.pos) EXCEPT !.scalars[n.name] = e.val]
        equals(n, eq) ==
            IF eq.err # 0 THEN Raise(Seek(m, s, eq.pos), eq.err)
            ELSE value(n, parse_expression(Buf(s), eq.pos, m.scalars))
        named(n) ==
            IF n.err # 0 THEN Raise(Seek(m, s, n.pos), n.err)
            ELSE equals(n, require_read(Buf(s), n.pos, {tk_O_EQ}))
    IN named(parse_name(Buf(s), Tell(m, s)))

(***************************************************************************)
(* StatementParser.parse_statement.                                        *)
(***************************************************************************)
\* bytes that start no statement: parse_statement only requires the end
NoStatement ==
    ((0..127) \ {95}) \cup {tk_TO, tk_THEN, tk_STEP, tk_O_EQ, tk_O_PLUS, tk_O_MINUS}

\* the statement the keyword at q selects (read_keyword_token and the tables)
statement_kind(buf, q) ==
    LET keyword(c, sel) ==
            IF c = tk_GOTO THEN "GOTO"
            ELSE IF c = tk_GOSUB THEN "GOSUB"
            ELSE IF c = tk_RETURN THEN "RETURN"
            ELSE IF c = tk_RESUME THEN "RESUME"
            ELSE IF c = tk_STOP THEN "STOP"
            ELSE IF c = tk_PRINT THEN "PRINT"
            ELSE IF c = tk_FOR THEN "FOR"
            ELSE IF c = tk_NEXT THEN "NEXT"
            ELSE IF c \in {tk_REM, tk_ELSE} THEN "REM"
            ELSE IF c = tk_DATA THEN "DATA"
            ELSE IF c = tk_READ THEN "READ"
            ELSE IF c = tk_RESTORE THEN "RESTORE"
            ELSE IF c = tk_WHILE THEN "WHILE"
            ELSE IF c = tk_WEND THEN "WEND"
            ELSE IF c = tk_IF THEN "IF"
            ELSE IF c = tk_CLEAR THEN "CLEAR"
            ELSE IF c = tk_ON /\ sel = tk_ERROR THEN "ON_ERROR"
            ELSE IF c = tk_ON /\ sel \notin {tk_KEY, tk_PREFIX, tk_PREFIX + 1}
            THEN "ON_JUMP"
            ELSE IF c = tk_PREFIX /\ Byte(buf, q + 1) = tk_SYSTEM2 THEN "SYSTEM"
            ELSE IF c = EOF \/ c \in Letters THEN "LET"
            ELSE IF c \in NoStatement THEN "EMPTY"
            ELSE "UNMODELLED"
    IN keyword(Byte(buf, q), Byte(buf, skip_blank(buf, q + 1)))

\* a line-number argument (_parse_single_line_number_iter) for a callback
jumpnum_arg(m, s, p) ==
    LET number(j) == [m |-> IF j.err # 0 THEN Raise(Seek(m, s, j.pos), j.err)
                            ELSE Seek(m, s, j.pos),
                      num |-> j.num]
    IN number(parse_jumpnum(Buf(s), p))

\* Interpreter.goto_
goto_(a) == IF Failed(a.m) THEN a.m ELSE jump(a.m, a.num)

\* Interpreter.gosub_
gosub_(a) == IF Failed(a.m) THEN a.m ELSE jump_sub(a.m, a.num, 0)

\* _parse_end and a callback that raises the control signal sg
\* (Interpreter.stop_, Interpreter.system_)
signal_statement(m, s, p, sg) ==
    LET ended(e) == IF e.err # 0 THEN Raise(Seek(m, s, e.pos), e.err)
                    ELSE [Seek(m, s, e.pos) EXCEPT !.sig = sg]
    IN ended(require_end(Buf(s), p))

\* The statements: the argument parser and the callback that the tables of
\* StatementParser give the keyword read at q on the stream s.
goto_statement(m, s, q) == goto_(jumpnum_arg(m, s, q + 1))

gosub_statement(m, s, q) == gosub_(jumpnum_arg(m, s, q + 1))

\* _parse_optional_line_number_iter and Interpreter.return_
return_statement(m, s, q) ==
    LET number(opt) == IF opt.err # 0 THEN Raise(Seek(m, s, opt.pos), opt.err)
                       ELSE return_(Seek(m, s, opt.pos), opt.num)
    IN number(parse_optional_jumpnum(Buf(s), q + 1))

\* _parse_on_error_goto_args_iter and Interpreter.on_error_goto_
on_error_goto_statement(m, s, q) ==
    LET number(a) == IF Failed(a.m) THEN a.m ELSE on_error_goto_(a.m, a.num)
        goto(on2) == IF on2.err # 0 THEN Raise(Seek(m, s, on2.pos), on2.err)
                     ELSE number(jumpnum_arg(m, s, on2.pos))
        error(on1) == IF on1.err # 0 THEN Raise(Seek(m, s, on1.pos), on1.err)
                      ELSE goto(require_read(Buf(s), on1.pos, {tk_GOTO}))
    IN error(require_read(Buf(s), q + 1, {tk_ERROR}))

\* the selector of ON is not in the table: _parse_on_jump_args_iter and
\* Interpreter.on_jump_, from the selector
on_jump_statement(m, s, q) == on_jump_(Seek(m, s, skip_blank(Buf(s), q + 1)), s)

resume_statement(m, s, q) == resume_(Seek(m, s, q + 1), s)

stop_statement(m, s, q) == signal_statement(m, s, q + 1, "break")

system_statement(m, s, q) == signal_statement(m, s, q + 2, "exit")

print_statement(m, s, q) == print_(Seek(m, s, q + 1), s)

for_statement(m, s, q) == for_(Seek(m, s, q + 1), s)

next_statement(m, s, q) == next_(Seek(m, s, q + 1), s)

\* _parse_nothing and Interpreter.while_
while_statement(m, s, q) == while_(Seek(m, s, q + 1))

\* _parse_end and Interpreter.wend_
wend_statement(m, s, q) ==
    LET ended(e) == IF e.err # 0 THEN Raise(Seek(m, s, e.pos), e.err)
                    ELSE wend_(Seek(m, s, e.pos))
    IN ended(require_end(Buf(s), q + 1))

read_statement(m, s, q) == read_(Seek(m, s, q + 1), s)

restore_statement(m, s, q) == restore_(Seek(m, s, q + 1), s)

if_statement(m, s, q) == if_(Seek(m, s, q + 1), s)

clear_statement(m, s, q) == clear_(Seek(m, s, q + 1), s)

\* _skip_line
rem_statement(m, s, q) == Seek(m, s, skip_to(Buf(s), q + 1, tk_END_LINE, TRUE))

\* _skip_statement
data_statement(m, s, q) == Seek(m, s, skip_to(Buf(s), q + 1, tk_END_STATEMENT, TRUE))

\* the implicit LET: the cursor goes back to the first byte
let_statement(m, s, q) == let_(Seek(m, s, q), s)

\* no statement: the cursor goes back to the first byte
empty_statement(m, s, q) == Seek(m, s, q)

\* StatementParser.parse_statement on the stream s, for the statement whose
\* argument parser and callback are run
parse_statement(m, s, run(_, _, _)) ==
    LET ended(r, e) ==
            IF e.err # 0 THEN Raise(Seek(r, s, e.pos), e.err) ELSE Seek(r, s, e.pos)
        ran(r, c) ==
            IF Failed(r) \/ c = tk_IF THEN r
            ELSE ended(r, require_end(Buf(s), Tell(r, s)))
        read(q) == ran(run(m, s, q), Byte(Buf(s), q))
    IN read(skip_blank(Buf(s), Tell(m, s)))

(***************************************************************************)
(* Interpreter.parse: one iteration of the main loop.                      *)
(***************************************************************************)
\* the state at the statement: after event dispatch and the line marker.
\* at: "statement", "end" (end of stream) or "failed" (event dispatch raised)
Prologue(m) ==
    LET marker(m2, ins, c, q, p1, token) ==
            IF c \in tk_END_LINE
            THEN [at |-> IF Len(token) < 4 \/ SubSeq(token, 1, 2) = <<0, 0>>
                         THEN "end" ELSE "statement",
                  m |-> Seek(m2, ins, Adv(Buf(ins), p1, 4)), ins |-> ins,
                  token |-> token]
            ELSE [at |-> "statement", m |-> Seek(m2, ins, IF c = COLON THEN p1 ELSE q),
                  ins |-> ins, token |-> <<>>]
        read(m2, ins, q, p1) ==
            marker(m2, ins, Byte(Buf(ins), q), q, p1, ReadN(Buf(ins), p1, 4))
        start(m2, ins, q) == read(m2, ins, q, Adv(Buf(ins), q, 1))
        current(m2, ins) == start(m2, ins, skip_blank(Buf(ins), Tell(m2, ins)))
        stream(m1, ins) ==
            current([m1 EXCEPT !.current_statement = Tell(m1, ins)], ins)
        handled(m1) ==
            IF Failed(m1)
            THEN [at |-> "failed", m |-> m1, ins |-> get_codestream(m1), token |-> <<>>]
            ELSE stream(m1, get_codestream(m1))
    IN handled(handle_basic_events(m))

\* what the iteration executes at the statement
KindAt(pr) ==
    IF pr.at # "statement" THEN pr.at
    ELSE statement_kind(Buf(pr.ins), skip_blank(Buf(pr.ins), Tell(pr.m, pr.ins)))

\* a faulty end_of_stream, to validate C5: it halts with a handler unresumed
end_of_stream_silent(pr) == [set_pointer(pr.m, FALSE, NONE) EXCEPT !.sig = "returned"]

\* a faulty end_of_stream, to validate C8: it returns and leaves the pointer
end_of_stream_no_halt(pr) ==
    IF pr.m.error_resume # <<>>
    THEN RaiseAt([pr.m EXCEPT !.error_handle_mode = TRUE], NO_RESUME,
                 Tell(pr.m, pr.ins) - Len(pr.token) - 2)
    ELSE [pr.m EXCEPT !.sig = "returned"]

\* the end of the stream: the marker of a blank or truncated line record, or
\* no byte at all; parse() raises NO_RESUME or halts the engine and returns
end_of_stream(pr) ==
    IF pr.m.error_resume # <<>>
    THEN RaiseAt([pr.m EXCEPT !.error_handle_mode = TRUE], NO_RESUME,
                 Tell(pr.m, pr.ins) - Len(pr.token) - 2)
    ELSE [set_pointer(pr.m, FALSE, NONE) EXCEPT !.sig = "returned"]

\* the try block: the state when it is left, with the exception in flight
TryBlock(pr, run(_, _, _)) ==
    IF pr.at = "failed" THEN pr.m
    ELSE IF pr.at = "end" THEN end_of_stream(pr)
    ELSE parse_statement(pr.m, pr.ins, run)

\* a faulty except clause, to validate C7: it catches the control signals too
Except_signals(t) ==
    IF t.err # 0 \/ t.sig \in {"break", "exit", "reset"}
    THEN trap_error([t EXCEPT !.sig = "none"])
    ELSE t

\* except RunError: only a RunError is caught and handed to trap_error
Except(t) == IF t.err # 0 /\ t.sig = "none" THEN trap_error(t) ELSE t

(***************************************************************************)
(* Tokenised programs and direct lines the engine is started on.           *)
(***************************************************************************)
\* bounds of the model
MaxOutput == 8
MaxStack == 3
MaxVal == 3

RECURSIVE Concat(_)
Concat(ss) == IF ss = <<>> THEN <<>> ELSE Head(ss) \o Concat(Tail(ss))

RECURSIVE Join(_)
Join(stmts) ==
    IF Len(stmts) <= 1 THEN Concat(stmts)
    ELSE Head(stmts) \o <<COLON>> \o Join(Tail(stmts))

\* a line record: marker, next-line offset placeholder, line number, statements
LineRecord(l) == <<NUL, 192, 222, l.num % 256, l.num \div 256>> \o Join(l.stmts)
L(num, stmts) == [num |-> num, stmts |-> stmts]

\* the program buffer of the lines, closed by the blank end-of-program record
RECURSIVE ProgramOf(_)
ProgramOf(lines) ==
    IF lines = <<>> THEN <<NUL, 0, 0>>
    ELSE LineRecord(Head(lines)) \o ProgramOf(Tail(lines))

\* the line-number index of the lines, the first marker at offset off
RECURSIVE IndexOf(_, _)
IndexOf(lines, off) ==
    IF lines = <<>> THEN <<>>
    ELSE (Head(lines).num :> off)
         @@ IndexOf(Tail(lines), off + Len(LineRecord(Head(lines))))

\* a direct line: the tokeniser anchors it with ':'
DirectOf(stmts) == <<COLON>> \o Join(stmts)

U(n) == <<tk_T_UINT, n % 256, n \div 256>>
K(n) == IF n >= 0 THEN <<tk_C_0 + n>> ELSE <<tk_O_MINUS, tk_C_0 + (0 - n)>>
VI == <<73>>
VJ == <<74>>
VA == <<65, 37>>
VB == <<66, STR>>
VC == <<67, 37>>
sGOTO(n) == <<tk_GOTO, SPACE>> \o U(n)
sGOSUB(n) == <<tk_GOSUB, SPACE>> \o U(n)
sRETURN == <<tk_RETURN>>
sRETURNTO(n) == <<tk_RETURN, SPACE>> \o U(n)
sPRINT(n) == <<tk_PRINT, SPACE>> \o K(n)
sPRINTV(v) == <<tk_PRINT, SPACE>> \o v
sSTOP == <<tk_STOP>>
sSYSTEM == <<tk_PREFIX, tk_SYSTEM2>>
sREM == <<tk_REM, SPACE, 88, COLON, 89>>
sDATA == <<tk_DATA, SPACE, 49>>
sLET(v, n) == v \o <<tk_O_EQ>> \o K(n)
sONERROR(n) == <<tk_ON, SPACE, tk_ERROR, SPACE, tk_GOTO, SPACE>> \o U(n)
sRESUME == <<tk_RESUME>>
sRESUMENEXT == <<tk_RESUME, SPACE, tk_NEXT>>
sRESUMETO(n) == <<tk_RESUME, SPACE>> \o U(n)
sFOR(v, a, b) == <<tk_FOR, SPACE>> \o v \o <<tk_O_EQ>> \o K(a) \o <<tk_TO>> \o K(b)
sFORSTEP(v, a, b, st) == sFOR(v, a, b) \o <<tk_STEP>> \o K(st)
sNEXT == <<tk_NEXT>>
sNEXTV(v) == <<tk_NEXT, SPACE>> \o v
sNEXTVV(v, w) == <<tk_NEXT, SPACE>> \o v \o <<COMMA>> \o w
sLETE(v, e) == v \o <<tk_O_EQ>> \o e
sDEC(v) == sLETE(v, v \o <<tk_O_MINUS>> \o K(1))
sWHILE(e) == <<tk_WHILE, SPACE>> \o e
sWEND == <<tk_WEND>>
sREAD(v) == <<tk_READ, SPACE>> \o v
sREAD3(v, w, x) == <<tk_READ, SPACE>> \o v \o <<COMMA>> \o w \o <<COMMA, SPACE>> \o x
sRESTORE == <<tk_RESTORE>>
sRESTORETO(n) == <<tk_RESTORE, SPACE>> \o U(n)
\* DATA 10,"A,B",20
sDATA3 == <<tk_DATA, SPACE, 49, 48, COMMA, QUOTE, 65, COMMA, 66, QUOTE, COMMA, 50, 48>>
sIF(cond, then) == <<tk_IF, SPACE>> \o cond \o <<SPACE, tk_THEN, SPACE>> \o then
sIFGOTO(cond, n) == <<tk_IF, SPACE>> \o cond \o <<COMMA, tk_GOTO, SPACE>> \o U(n)
sELSE(else) == <<tk_ELSE, SPACE>> \o else
sCLEAR == <<tk_CLEAR>>
sON(e, tok, t1, t2) ==
    <<tk_ON, SPACE>> \o e \o <<SPACE, tok, SPACE>> \o U(t1) \o <<COMMA>> \o U(t2)

\* subroutines, at several call positions
GosubLines ==
    << L(10, <<sGOSUB(100), sPRINT(1)>>),
       L(20, <<sPRINT(2), sGOSUB(110)>>),
       L(30, <<sSTOP>>),
       L(100, <<sRETURN>>),
       L(110, <<sPRINT(7), sRETURN, sPRINT(8)>>),
       L(500, <<sRETURN>>) >>

\* the error handlers at line 100
Handlers ==
    { <<sRESUME>>, <<sRESUMENEXT>>, <<sRESUMETO(30)>>, <<sRESUMETO(40)>>,
      <<sGOTO(999)>>, <<sPRINT(9)>>, <<sSTOP>>, <<sSYSTEM>>,
      <<sLET(VI, 1), sRESUMENEXT>>, <<sREM>>, <<sONERROR(0), sPRINT(9)>> }

\* a program with failing statements and an error handler
TrapLines(handler) ==
    << L(10, <<sONERROR(100)>>),
       L(20, <<sPRINT(1), sGOTO(58), sPRINT(2)>>),
       L(30, <<sRETURN>>),
       L(40, <<sDATA, <<>>, sPRINT(3)>>),
       L(50, <<sSTOP>>),
       L(100, handler) >>

\* a program that ends inside a subroutine and a loop
StackLines ==
    << L(10, <<sGOSUB(20)>>),
       L(20, <<sFOR(VI, 1, 2), sGOTO(40)>>),
       L(30, <<sNEXT>>),
       L(40, <<sPRINT(1)>>) >>

\* a jump out of the inner loop to the NEXT of the outer one
NestLines ==
    << L(10, <<sFOR(VI, 1, 2)>>),
       L(20, <<sFOR(VJ, 1, 2)>>),
       L(30, <<sGOTO(50)>>),
       L(40, <<sNEXTV(VJ)>>),
       L(50, <<sNEXTV(VI)>>),
       L(60, <<sPRINT(9)>>) >>

\* a jump to a NEXT that is not the one found for the FOR
StrayLines ==
    << L(10, <<sFOR(VI, 1, 2)>>),
       L(20, <<sGOTO(40)>>),
       L(30, <<sNEXTV(VI)>>),
       L(40, <<sNEXTV(VI)>>) >>

\* a loop that counts I down from a
WhileLines(a) ==
    << L(10, <<sLET(VI, a)>>),
       L(20, <<sWHILE(VI)>>),
       L(30, <<sPRINTV(VI), sDEC(VI)>>),
       L(40, <<sWEND>>),
       L(50, <<sPRINT(9)>>) >>

\* a jump out of the inner loop to the WEND of the outer one
WhileNestLines ==
    << L(10, <<sLET(VI, 2)>>),
       L(20, <<sWHILE(VI)>>),
       L(30, <<sDEC(VI)>>),
       L(40, <<sWHILE(K(1))>>),
       L(50, <<sGOTO(70)>>),
       L(60, <<sWEND>>),
       L(70, <<sWEND>>),
       L(80, <<sPRINT(9)>>) >>

\* a jump to a WEND that is not the one found for the WHILE
WhileStrayLines ==
    << L(10, <<sWHILE(K(1))>>),
       L(20, <<sGOTO(40)>>),
       L(30, <<sWEND>>),
       L(40, <<sWEND>>) >>

\* a calculated jump on I, by GOTO or by GOSUB
OnLines(tok) ==
    << L(10, <<sON(VI, tok, 40, 50), sPRINT(1)>>),
       L(20, <<sSTOP>>),
       L(40, <<sPRINT(4), sRETURN>>),
       L(50, <<sPRINT(5), sRETURN>>) >>

\* the direct lines that run it, and calculated jumps on the direct line
OnDirects(tok) ==
    { <<sLET(VI, n), sGOTO(10)>> : n \in -1..4 }
    \cup { <<sON(K(n), tok, 40, 50), sPRINT(6)>> : n \in 0..4 }
    \cup { <<sON(K(n), tok, 50, 60), sPRINT(6)>> : n \in 1..3 }

\* a jump backwards, with text behind its line number
BackLines ==
    << L(10, <<sIFGOTO(VI, 30)>>),
       L(20, <<sLET(VI, 1), sGOTO(10) \o <<SPACE, 88>>>>),
       L(30, <<sSTOP>>) >>

\* string literals in a clause that is skipped: one without closing quote,
\* one holding the byte c
StringLines(c) ==
    << L(10, <<sIF(VI, sPRINTV(<<QUOTE, 65>>))>>),
       L(20, <<sIF(VI, sPRINTV(<<QUOTE, c, QUOTE>>)), sELSE(sPRINT(2))>>),
       L(30, <<sSTOP>>) >>

\* loops that are skipped, with the tokens of the loop in a string literal
\* and in a comment of their bodies
HiddenForLines ==
    << L(10, <<sFOR(VI, 1, 0), sPRINTV(<<QUOTE, COLON, tk_NEXT, COLON, tk_FOR, QUOTE>>),
               <<tk_REM, COLON, tk_NEXT>>>>),
       L(20, <<sNEXT, sPRINT(1)>>) >>
HiddenWhileLines ==
    << L(10, <<sWHILE(K(0)), sPRINTV(<<QUOTE, COLON, tk_WEND, QUOTE>>),
               <<tk_REM, COLON, tk_WHILE, COLON, tk_WEND>>>>),
       L(20, <<sWEND, sPRINT(1)>>) >>

\* a loop that is skipped, with a loop inside it that opens behind THEN or
\* behind ELSE
NestedWhileLines(clause) ==
    << L(10, <<sWHILE(K(0)), sIF(VI, clause)>>),
       L(20, <<sWEND, sWEND, sPRINT(1)>>) >>
\* loops that are not closed
OpenLoopLines(loop) ==
    << L(10, loop),
       L(20, <<sPRINT(1)>>) >>
OpenLoops ==
    { <<sFOR(VI, 1, 2)>>, <<sWHILE(K(1))>>, <<sWHILE(K(0)), sWHILE(K(1)), sWEND>>,
      <<sFOR(VI, 1, 0), sFOR(VJ, 1, 2), sNEXT>> }
\* loops whose matching NEXT names another variable
MismatchedLoops ==
    { <<sFOR(VI, 1, 2), sPRINTV(VI), sNEXTV(VJ)>>,
      <<sFOR(VI, 1, 2), sFOR(VJ, 1, 2), sNEXTV(VI), sNEXT>>,
      <<sFOR(VI, 1, 2), sFOR(VJ, 1, 2), sNEXTVV(VJ, VJ)>> }
\* a FOR without NEXT, reached by a jump out of a loop that stays open
LiveOuterLines ==
    << L(10, <<sFOR(VI, 1, 2), sGOTO(30)>>),
       L(20, <<sNEXT>>),
       L(30, <<sFOR(VJ, 1, 2), sPRINT(1)>>) >>
NestedClauses == { sWHILE(K(1)), sPRINT(1) \o <<COLON>> \o sELSE(sWHILE(K(1))) }

\* READ statements in front of the DATA they read
DataLines(reads) ==
    << L(10, reads),
       L(20, <<sDATA3, sPRINT(2), sDATA>>),
       L(30, <<sPRINT(9)>>) >>

Reads ==
    { <<sREAD(VA), sREAD(VB), sREAD(VC)>>,
      <<sREAD3(VA, VB, VC), sREAD(VI), sPRINTV(VI)>>,
      <<sREAD3(VA, VB, VC), sREAD3(VI, VJ, VA)>>,
      <<sREAD(VB), sREAD(VA)>>,
      <<sREAD(VB), sREAD(VB), sREAD(VB), sREAD(VB), sREAD(VB)>>,
      <<sREAD(VA), sRESTORE, sREAD(VC)>>,
      <<sREAD(VA), sRESTORETO(30), sREAD(VC)>>,
      <<sREAD(VA), sRESTORETO(20), sREAD(VC), sRESTORETO(99)>>,
      <<sRESTORE \o <<SPACE, 88>>>>,
      <<sREAD(<<49>>)>> }

\* branches on I and J: statements and line numbers behind THEN and ELSE
IfLines(a, b, branches) ==
    << L(10, <<sLET(VI, a), sLET(VJ, b)>>),
       L(20, branches),
       L(30, <<sPRINT(3)>>),
       L(40, <<sPRINT(4)>>) >>

Branches ==
    { <<sIF(VI, sPRINT(1)), sELSE(sPRINT(2))>>,
      <<sIF(VI, sPRINT(1)), sPRINT(5), sELSE(sPRINT(2))>>,
      <<sIF(VI, sIF(VJ, sPRINT(1))), sELSE(sPRINT(2)), sELSE(sPRINT(3))>>,
      <<sIF(VI, sIF(VJ, sPRINT(1))), sELSE(sPRINT(2))>>,
      <<sIF(VI, U(40)), sELSE(U(30))>>,
      <<sIF(VI, U(40)), sELSE(U(50))>>,
      <<sIFGOTO(VI, 40), sPRINT(5)>>,
      <<sIF(VI, sPRINT(1) \o <<SPACE, 88>>)>>,
      <<<<tk_IF, SPACE>> \o VI \o <<SPACE>> \o sPRINT(1)>> }

\* CLEAR inside a subroutine and a loop, behind a READ
ClearSubLines ==
    << L(10, <<sDATA, sREAD(VI), sGOSUB(30)>>),
       L(20, <<sSTOP>>),
       L(30, <<sFOR(VJ, 1, 2), sWHILE(VI), sCLEAR, sRETURN, sWEND, sNEXT>>) >>

\* CLEAR inside a loop, and the end of the loop behind it
ClearLoopLines(end) ==
    << L(10, <<sFOR(VJ, 1, 2), sWHILE(K(1)), sCLEAR>> \o end) >>

\* CLEAR inside an error handler, and what the handler does behind it
ClearTrapLines(then) ==
    << L(10, <<sONERROR(30)>>),
       L(20, <<sREAD(VI), sSTOP>>),
       L(30, <<sCLEAR, then>>) >>

\* event traps at lines 50 and 60 around a trapped error; the trap at line 50
\* leaves I = 1 when it has run, and J = 1 when it has run twice
EventLinesTo(ret) ==
    << L(10, <<sONERROR(40)>>),
       L(20, <<sGOTO(58), sPRINT(1)>>),
       L(30, <<sSTOP>>),
       L(40, <<sRESUMENEXT>>),
       L(50, <<sLETE(VJ, VI), sLET(VI, 1), sRETURN>>),
       L(60, <<sGOSUB(70), sRETURNTO(ret)>>),
       L(70, <<sRETURN>>) >>
EventLines == EventLinesTo(30)

\* an event trap at line 50 that only returns, under a program with a THEN
\* clause and an ELSE clause
ThenEventLines(a) ==
    << L(10, <<sPRINT(1), sIF(K(a), sPRINT(2)), sPRINT(3), sELSE(sPRINT(4))>>),
       L(20, <<sSTOP>>),
       L(50, <<sRETURN>>),
       L(60, <<sRETURN>>) >>

\* a FOR that is executed again while its loop is open
ReenteredLoopLines ==
    << L(10, <<sFOR(VI, 1, 2)>>),
       L(20, <<sGOTO(10)>>),
       L(30, <<sNEXT>>) >>

\* calls of a line that does not exist, inside a subroutine and with the
\* errors trapped
UndefinedSubLines ==
    << L(10, <<sONERROR(50)>>),
       L(20, <<sGOSUB(40)>>),
       L(30, <<sSTOP>>),
       L(40, <<sGOSUB(58), sON(K(1), tk_GOSUB, 58, 40), sRETURN>>),
       L(50, <<sRESUMENEXT>>) >>

\* READ in front of a subroutine call and loops
MixLines ==
    << L(10, <<sDATA>>),
       L(20, <<sREAD(VI), sIFGOTO(VI, 30)>>),
       L(30, <<sGOSUB(60)>>),
       L(40, <<sFOR(VJ, 1, 1), sNEXT>>),
       L(50, <<sWHILE(VI), sDEC(VI), sWEND, sSTOP>>),
       L(60, <<sRETURN>>) >>

\* READ in front of a trapped error and a calculated jump
MixTrapLines ==
    << L(10, <<sDATA>>),
       L(20, <<sREAD(VI), sONERROR(50)>>),
       L(30, <<sREAD(VI), sGOTO(58), sON(K(1), tk_GOTO, 40, 40)>>),
       L(40, <<sSTOP>>),
       L(50, <<sRESUMENEXT>>) >>

Steps == {-2, -1, 1, 2}
Vals == 0..MaxVal

ForLines ==
    { << L(10, <<sFORSTEP(VI, a, b, st), sPRINTV(VI), sNEXT>>),
         L(20, <<sPRINT(9)>>) >> : a \in Vals, b \in Vals, st \in Steps }
    \cup
    { << L(10, <<sFORSTEP(VJ, a, b, st)>>),
         L(20, <<sPRINTV(VJ)>>),
         L(30, <<sNEXTV(VJ), sPRINT(9)>>) >> : a \in Vals, b \in Vals, st \in {-1, 1} }
    \cup
    { << L(10, <<sFOR(VI, a, b), sFOR(VJ, c, d), sPRINTV(VJ), sNEXTVV(VJ, VI)>>),
         L(20, <<sPRINT(9)>>) >> : a \in 1..2, b \in 1..2, c \in 1..2, d \in 1..2 }
    \cup
    { << L(10, <<sFOR(VI, a, 1), sFOR(VJ, c, 1), sPRINTV(VJ), sNEXT, sNEXTV(VI)>>),
         L(20, <<sPRINT(9)>>) >> : a \in Vals, c \in Vals }

NoEvents == (1 :> [enabled |-> FALSE, triggered |-> FALSE, stopped |-> FALSE,
                   gosub |-> NONE])
TimerEvent(line) == (1 :> [enabled |-> TRUE, triggered |-> FALSE, stopped |-> FALSE,
                           gosub |-> line])

\* two enabled events with their trap lines (NONE: no trap registered)
TwoEvents(line1, line2) ==
    (1 :> [enabled |-> TRUE, triggered |-> FALSE, stopped |-> FALSE, gosub |-> line1])
    @@ (2 :> [enabled |-> TRUE, triggered |-> FALSE, stopped |-> FALSE, gosub |-> line2])

Scenario(lines, direct, ev) ==
    [program |-> ProgramOf(lines), index |-> IndexOf(lines, 0), direct |-> direct,
     ev |-> ev]

\* the program file cut off inside the line number of one more line record
Truncated(sc) ==
    [sc EXCEPT !.program = SubSeq(@, 1, Len(@) - 3) \o <<NUL, 192, 222, 60>>]

Scenarios ==
    { Scenario(GosubLines, DirectOf(d), ev) :
        d \in { <<sGOTO(10)>>, <<sGOSUB(100), sPRINT(3)>>, <<sPRINT(4), sGOSUB(110)>>,
                <<sRETURN>> },
        ev \in {NoEvents, TimerEvent(500)} }
    \cup
    { Scenario(TrapLines(h), DirectOf(d), NoEvents) :
        h \in Handlers,
        d \in { <<sGOTO(10)>>, <<sGOTO(20)>>,
                <<sONERROR(100), sGOTO(999), sPRINT(5)>>,
                <<sONERROR(0), sGOTO(20)>>, <<sRESUME>>,
                <<sONERROR(100), sRESUME>>, <<sONERROR(100) \o <<SPACE, 88>>>>,
                <<sONERROR(100), sGOTO(10) \o <<SPACE, 88>>, sPRINT(6)>> } }
    \cup
    { Scenario(lines, DirectOf(<<sGOTO(10)>>), NoEvents) :
        lines \in {StackLines, NestLines, StrayLines, WhileNestLines, WhileStrayLines}
                  \cup {WhileLines(a) : a \in 0..2} }
    \cup
    { Scenario(EventLines, DirectOf(d), ev) :
        d \in { <<sGOTO(10)>>, <<sPRINT(1), sPRINT(2)>> },
        ev \in { TwoEvents(50, 60), TwoEvents(50, NONE) } }
    \cup
    { Scenario(EventLinesTo(99), DirectOf(<<sGOTO(10)>>), TwoEvents(50, 60)) }
    \cup
    { Scenario(ThenEventLines(a), DirectOf(<<sGOTO(10)>>), ev) :
        a \in 0..1, ev \in {TimerEvent(50), TwoEvents(50, 60)} }
    \cup
    UNION { { Scenario(OnLines(tok), DirectOf(d), NoEvents) : d \in OnDirects(tok) } :
              tok \in {tk_GOTO, tk_GOSUB} }
    \cup
    { Scenario(DataLines(reads), DirectOf(<<sGOTO(10)>>), NoEvents) : reads \in Reads }
    \cup
    { Scenario(DataLines(<<sREM>>), DirectOf(d), NoEvents) :
        d \in { <<sREAD(VA), sREAD(VB), sPRINTV(VA), sGOTO(30)>>,
                <<sREAD(VA), sRESTORE, sREAD(VC), sRESTORETO(20), sREAD(VI)>>,
                <<sREAD3(VA, VB, VC), sREAD(VI), sREAD(VJ)>>,
                <<sREAD3(VB, VA, VC)>> } }
    \cup
    { Scenario(lines, DirectOf(<<sGOTO(10)>>), NoEvents) :
        lines \in {MixLines, MixTrapLines, ClearSubLines, BackLines,
                   StringLines(65), StringLines(tk_REM), HiddenForLines,
                   HiddenWhileLines}
                  \cup {NestedWhileLines(clause) : clause \in NestedClauses}
                  \cup {OpenLoopLines(loop) : loop \in OpenLoops \cup MismatchedLoops}
                  \cup {LiveOuterLines, ReenteredLoopLines, UndefinedSubLines}
                  \cup {ClearLoopLines(end) : end \in {<<sNEXT, sWEND>>, <<sWEND, sNEXT>>}}
                  \cup {ClearTrapLines(then) : then \in {sRESUME, sREAD(VI), sPRINT(1)}}
                  \cup {IfLines(a, b, br) : a \in 0..1, b \in 0..1, br \in Branches} }
    \cup
    { Scenario(<<>>, DirectOf(d), NoEvents) :
        d \in { <<sIF(K(a), sPRINT(1)), sELSE(sPRINT(2))>> : a \in 0..1 }
              \cup { <<sRETURNTO(30)>>,
                     <<sFOR(VI, 1, 2), sWHILE(K(1)), sRETURN, sWEND, sNEXT>> }
              \cup { <<sCLEAR \o args, sPRINT(1)>> :
                        args \in { <<>>, <<SPACE>> \o K(1), <<COMMA>>, <<COMMA>> \o K(1),
                                   <<COMMA, COMMA>> \o K(1), <<COMMA, COMMA>>,
                                   <<SPACE, 88>> } } }
    \cup
    { Scenario(<<>>, DirectOf(d), NoEvents) :
        d \in { <<sREAD(VI)>>, <<sPRINT(1) \o <<SPACE>>, <<SPACE, 49>>, sPRINT(2)>>,
                <<sGOSUB(58), sPRINT(3)>>,
                <<sFOR(VI, 1, 2), sPRINTV(VI)>>, <<sFOR(VI, 1, 2), sNEXTV(VJ)>>,
                <<sLET(VI, 1), sWHILE(VI), sPRINTV(VI), sDEC(VI), sWEND, sPRINT(9)>>,
                <<sWHILE(VI), sPRINT(1), sWEND, sPRINT(9)>>,
                <<sWHILE(K(1)), sPRINT(1)>>, <<sWEND>>,
                <<sLET(VI, 1), sWHILE(VI), sDEC(VI), sWEND \o <<SPACE, 88>>>> } }
    \cup
    { Truncated(Scenario(lines, DirectOf(<<sGOTO(10)>>), NoEvents)) :
        lines \in {StackLines, TrapLines(<<sPRINT(9)>>), TrapLines(<<sRESUMETO(40)>>)} }
    \cup
    { Scenario(fl, DirectOf(<<sGOTO(10)>>), NoEvents) : fl \in ForLines }
    \cup
    { Scenario(<<>>, DirectOf(<<sFORSTEP(VI, a, b, st), sPRINTV(VI), sNEXT>>), NoEvents) :
        a \in Vals, b \in Vals, st \in {-1, 1} }

(***************************************************************************)
(* The state machine.                                                      *)
(***************************************************************************)
NoCall == [state |-> "none", pos |-> 0, run_mode |-> FALSE, stack |-> <<>>]

Init ==
    \E sc \in Scenarios :
        /\ program = sc.program
        /\ line_numbers = sc.index
        /\ direct_line = sc.direct
        /\ run_mode = FALSE
        /\ program_pos = 0
        /\ direct_pos = 0
        /\ current_statement = 0
        /\ gosub_stack = <<>>
        /\ for_stack = <<>>
        /\ while_stack = <<>>
        /\ data_pos = 0
        /\ on_error = NONE
        /\ error_handle_mode = FALSE
        /\ error_resume = <<>>
        /\ error_num = 0
        /\ error_pos = 0
        /\ suspend_all = FALSE
        /\ events = sc.ev
        /\ scalars = [v \in VarNames |-> IF v[Len(v)] = STR THEN <<>> ELSE 0]
        /\ output = <<>>
        /\ status = "parsing"
        /\ hist = [op |-> "init", pre |-> <<>>, start |-> <<>>, try |-> <<>>,
                   ins |-> FALSE, raised |-> 0, dispatched |-> {}, call |-> NoCall,
                   failed |-> <<>>, since_resume |-> "none", poll |-> <<>>]

\* how parse() has ended in m, or "parsing"
StatusOf(m) ==
    IF m.sig # "none" THEN m.sig ELSE IF m.err # 0 THEN "error" ELSE "parsing"

\* statements that move no cursor but their own and touch no stack
PlainKinds == {"PRINT", "REM", "DATA", "LET", "EMPTY"}

\* the GOSUB most recently executed, while no other control operation followed
NextCall(call, kind, pr, t) ==
    LET buf == Buf(pr.ins)
        q == skip_blank(buf, Tell(pr.m, pr.ins))
    IN IF kind = "GOSUB" /\ t.err = 0
       THEN [state |-> "open", pos |-> parse_jumpnum(buf, q + 1).pos,
             run_mode |-> pr.ins, stack |-> pr.m.gosub_stack]
       ELSE IF kind = "RETURN" /\ call.state = "open" /\ t.err = 0
               /\ parse_optional_jumpnum(buf, q + 1).num = NONE
       THEN [call EXCEPT !.state = "returned"]
       ELSE IF kind \in PlainKinds /\ t.err = 0 /\ call.state = "open" THEN call
       ELSE NoCall

\* the iteration has executed RESUME <line> to its end
ResumedTo(kind, pr, t) ==
    /\ kind = "RESUME" /\ t.err = 0 /\ pr.m.error_resume # <<>>
    /\ parse_resume_args(Buf(pr.ins),
                         skip_blank(Buf(pr.ins), Tell(pr.m, pr.ins)) + 1).num \notin {NONE, 0}

\* "clear": RESUME <line> was executed and no error was raised since;
\* "raised": the last iteration raised the first error since that RESUME
SinceResume(since, kind, pr, t) ==
    IF ResumedTo(kind, pr, t) THEN "clear"
    ELSE IF since = "clear" /\ t.err # 0 THEN "raised"
    ELSE IF since = "raised" THEN "none"
    ELSE since

Commit(r) ==
    /\ run_mode' = r.run_mode
    /\ program_pos' = r.ppos
    /\ direct_pos' = r.dpos
    /\ current_statement' = r.current_statement
    /\ gosub_stack' = r.gosub_stack
    /\ for_stack' = r.for_stack
    /\ while_stack' = r.while_stack
    /\ data_pos' = r.data_pos
    /\ on_error' = r.on_error
    /\ error_handle_mode' = r.error_handle_mode
    /\ error_resume' = r.error_resume
    /\ error_num' = r.error_num
    /\ error_pos' = r.error_pos
    /\ suspend_all' = r.suspend_all
    /\ events' = r.events
    /\ scalars' = r.scalars
    /\ output' = r.output
    /\ status' = StatusOf(r)
    /\ UNCHANGED <<program, line_numbers, direct_line>>


\* the last poll that dispatched several event traps at once, until the frame
\* it pushed first is gone: the GOSUB stack and the program cursor at the
\* poll, and the events dispatched
NextPoll(poll, m, disp) ==
    IF Cardinality(disp) >= 2
    THEN [stack |-> m.gosub_stack, pos |-> m.ppos, events |-> disp]
    ELSE IF poll # <<>> /\ Len(m.gosub_stack) <= Len(poll.stack) THEN <<>>
    ELSE poll

\* one iteration of parse() that executes a statement of the given kind;
\* parse() is running when status is "parsing"
Step(kind, run(_, _, _)) ==
    LET done(m, pr, t, r, disp) ==
            /\ Len(r.output) <= MaxOutput
            /\ Len(r.gosub_stack) <= MaxStack
            /\ Len(r.for_stack) <= MaxStack
            /\ Len(r.while_stack) <= MaxStack
            /\ Commit(r)
            /\ hist' = [op |-> kind, pre |-> m, start |-> pr.m, try |-> t,
                        ins |-> pr.ins, raised |-> t.err, dispatched |-> disp,
                        call |-> IF disp # {} THEN NoCall
                                 ELSE NextCall(hist.call, kind, pr, t),
                        failed |-> IF t.err # 0 /\ r.err = 0
                                   THEN <<pr.m.current_statement, pr.ins>>
                                   ELSE hist.failed,
                        since_resume |-> SinceResume(hist.since_resume, kind, pr, t),
                        poll |-> NextPoll(hist.poll, m, disp)]
        tried(m, pr, t) ==
            done(m, pr, t, Except(t),
                 {e \in DOMAIN m.events : pr.m.events[e].stopped /\ ~m.events[e].stopped})
        started(m, pr) ==
            /\ KindAt(pr) = kind
            /\ tried(m, pr, TryBlock(pr, run))
    IN started(Machine, Prologue(Machine))

Goto == status = "parsing" /\ Step("GOTO", goto_statement)
Gosub == status = "parsing" /\ Step("GOSUB", gosub_statement)
Return == status = "parsing" /\ Step("RETURN", return_statement)
OnErrorGoto == status = "parsing" /\ Step("ON_ERROR", on_error_goto_statement)
OnJump == status = "parsing" /\ Step("ON_JUMP", on_jump_statement)
Resume == status = "parsing" /\ Step("RESUME", resume_statement)
Stop == status = "parsing" /\ Step("STOP", stop_statement)
System == status = "parsing" /\ Step("SYSTEM", system_statement)
PrintStatement == status = "parsing" /\ Step("PRINT", print_statement)
For == status = "parsing" /\ Step("FOR", for_statement)
NextStatement == status = "parsing" /\ Step("NEXT", next_statement)
While == status = "parsing" /\ Step("WHILE", while_statement)
Wend == status = "parsing" /\ Step("WEND", wend_statement)
Read == status = "parsing" /\ Step("READ", read_statement)
Restore == status = "parsing" /\ Step("RESTORE", restore_statement)
If == status = "parsing" /\ Step("IF", if_statement)
Clear == status = "parsing" /\ Step("CLEAR", clear_statement)
Rem == status = "parsing" /\ Step("REM", rem_statement)
Data == status = "parsing" /\ Step("DATA", data_statement)
Let == status = "parsing" /\ Step("LET", let_statement)
EmptyStatement == status = "parsing" /\ Step("EMPTY", empty_statement)
EndOfStream == status = "parsing" /\ Step("end", empty_statement)

\* events.check_events at the top of an iteration raises Break or Reset
CheckEventsSignal ==
    /\ status = "parsing"
    /\ \E sg \in {"break", "reset"} : status' = sg
    /\ hist' = [hist EXCEPT !.op = "signal", !.pre = Machine, !.start = Machine,
                            !.try = Machine, !.raised = 0, !.dispatched = {},
                            !.call = NoCall,
                            !.since_resume = IF @ = "raised" THEN "none" ELSE @]
    /\ UNCHANGED <<program, line_numbers, direct_line, run_mode, program_pos,
                   direct_pos, current_statement, gosub_stack, for_stack,
                   while_stack, data_pos, on_error, error_handle_mode, error_resume,
                   error_num, error_pos, suspend_all, events, scalars, output>>

\* the event pump triggers an enabled event
TriggerEvent ==
    /\ status = "parsing"
    /\ \E e \in DOMAIN events :
          /\ events[e].enabled /\ ~events[e].triggered
          /\ events' = [events EXCEPT ![e].triggered = TRUE]
    /\ UNCHANGED <<program, line_numbers, direct_line, run_mode, program_pos,
                   direct_pos, current_statement, gosub_stack, for_stack,
                   while_stack, data_pos, on_error, error_handle_mode, error_resume,
                   error_num, error_pos, suspend_all, scalars, output, status, hist>>

Next ==
    \/ Goto \/ Gosub \/ Return \/ OnErrorGoto \/ OnJump \/ Resume \/ Stop \/ System
    \/ PrintStatement \/ For \/ NextStatement \/ While \/ Wend \/ Rem \/ Data \/ Let
    \/ Read \/ Restore \/ If \/ Clear
    \/ EmptyStatement \/ EndOfStream \/ CheckEventsSignal \/ TriggerEvent

Spec == Init /\ [][Next]_vars

(***************************************************************************)
(* Properties of the engine.                                               *)
(***************************************************************************)
\* the current cursor of the stream s
Cursor(s) == IF s THEN program_pos ELSE direct_pos

\* the engine is Halted: direct mode, the direct-line cursor at the end
Halted == ~run_mode /\ direct_pos = Len(direct_line)

\* the last iteration executed a statement of this kind
Ran(kind) == hist.op = kind

\* C1: a GOSUB executed at cursor P in run-mode R and then, as the next
\* control operation, a RETURN without a line number: the run-mode is R again,
\* the cursor of the stream of R is at P or further on in the calling
\* statement, and the GOSUB stack is as before the GOSUB.
C1_GosubReturnRestores ==
    hist.call.state = "returned" =>
        /\ run_mode = hist.call.run_mode
        /\ Cursor(hist.call.run_mode) >= hist.call.pos
        /\ Cursor(hist.call.run_mode) <=
              skip_to(Buf(hist.call.run_mode), hist.call.pos, tk_END_STATEMENT, TRUE)
        /\ gosub_stack = hist.call.stack

\* the kinds of statement an iteration executes
StatementKinds ==
    {"GOTO", "GOSUB", "RETURN", "ON_ERROR", "ON_JUMP", "RESUME", "STOP", "SYSTEM", "PRINT",
     "FOR", "NEXT", "WHILE", "WEND", "REM", "DATA", "READ", "RESTORE",
     "IF", "CLEAR", "LET", "EMPTY"}

\* the statement of the last iteration raised a RunError
StatementRaised == hist.op \in StatementKinds /\ hist.raised # 0

\* when the error was raised the trap target was a line and no handler active
TrapArmed == hist.try.on_error \notin {NONE, 0} /\ ~hist.try.error_handle_mode

\* the arguments of the RESUME that the last iteration executed to its end
ResumeArgs ==
    parse_resume_args(Buf(hist.ins),
                      skip_blank(Buf(hist.ins), Tell(hist.start, hist.ins)) + 1)
Resumed == Ran("RESUME") /\ hist.raised = 0
ResumedPlain == Resumed /\ ~ResumeArgs.next /\ ResumeArgs.num \in {NONE, 0}
ResumedNext == Resumed /\ ResumeArgs.next
ResumedToLine == Resumed /\ ~ResumeArgs.next /\ ResumeArgs.num \notin {NONE, 0}

\* C2: with the trap set to a line L and no handler active, an error raised by
\* the statement that starts at S in run-mode R makes the engine jump to L in
\* run mode with handling set and the resume-context (S, R); a following RESUME
\* without argument puts the cursor of R back at S in run-mode R, clears
\* handling and clears the resume-context.
C2_TrapThenResume ==
    /\ (StatementRaised /\ TrapArmed) =>
          /\ status = "parsing"
          /\ run_mode
          /\ program_pos = line_numbers[hist.try.on_error]
          /\ error_handle_mode
          /\ error_resume = <<hist.start.current_statement, hist.ins>>
    /\ ResumedPlain =>
          /\ run_mode = hist.failed[2]
          /\ Cursor(hist.failed[2]) = hist.failed[1]
          /\ ~error_handle_mode
          /\ error_resume = <<>>

\* the first byte of the statement behind the separator at S
BodyStart(buf, S) == IF Byte(buf, S) = NUL THEN S + 5 ELSE S + 1

\* the separator that ends the statement whose bytes start at p
RECURSIVE NextSeparator(_, _)
NextSeparator(buf, p) ==
    IF Byte(buf, p) \in {EOF, NUL, COLON} THEN p
    ELSE IF Byte(buf, p) = tk_T_UINT THEN NextSeparator(buf, p + 3)
    ELSE NextSeparator(buf, p + 1)

\* C3: after the error of the statement that starts at S in run-mode R was
\* trapped, RESUME NEXT continues in run-mode R with the cursor of R on the
\* separator that ends the failed statement, so that the statement after it is
\* the next one executed, and handling is cleared.
C3_ResumeNextContinues ==
    ResumedNext =>
        /\ run_mode = hist.failed[2]
        /\ Cursor(hist.failed[2]) =
              NextSeparator(Buf(hist.failed[2]),
                            BodyStart(Buf(hist.failed[2]), hist.failed[1]))
        /\ ~error_handle_mode
        /\ error_resume = <<>>

\* the position trap_error records for the error in flight in m
ErrorPosition(m) ==
    IF m.epos # NOPOS THEN m.epos ELSE IF m.run_mode THEN m.ppos - 1 ELSE -1

\* C4: an error raised while the trap target is unset or 0, or while a handler
\* is active, is not dispatched: parse() raises it to its caller, the engine
\* is Halted with handling false, and ERR and ERL record this error.
C4_UntrappedErrorHalts ==
    (hist.op \in StatementKinds \cup {"end"} /\ hist.raised # 0 /\ ~TrapArmed) =>
        /\ status = "error"
        /\ Halted
        /\ ~error_handle_mode
        /\ error_num = hist.raised
        /\ error_pos = ErrorPosition(hist.try)

\* an error inside the error handler has halted the engine
C4_ErrorInHandler ==
    /\ StatementRaised
    /\ hist.try.on_error \notin {NONE, 0} /\ hist.try.error_handle_mode
    /\ status = "error" /\ Halted

\* C5: the end of the program reached with the resume-context still set
\* raises NO_RESUME; the error is not dispatched to the trap although it is
\* enabled: parse() raises it to its caller and the engine is Halted.
C5_NoResumeAtEnd ==
    (Ran("end") /\ hist.start.error_resume # <<>>) =>
        /\ status = "error"
        /\ hist.raised = NO_RESUME
        /\ error_num = NO_RESUME
        /\ Halted
        /\ ~error_handle_mode
        /\ error_resume = hist.start.error_resume
        /\ output = hist.start.output

\* a handler ran off the end of the program with the trap enabled
C5_HandlerRanOff ==
    /\ Ran("end") /\ hist.ins
    /\ hist.start.error_resume # <<>> /\ hist.start.on_error \notin {NONE, 0}
    /\ error_num = NO_RESUME /\ status = "error"

\* C6: RESUME <line> with a defined line jumps to the line in run mode and
\* clears handling: handling is false, the resume-context is none and event
\* dispatch is not suspended; the first error raised after it, with the trap
\* still set, is trapped as a fresh error.
C6_ResumeLineClearsHandling ==
    /\ ResumedToLine =>
          /\ status = "parsing"
          /\ run_mode
          /\ program_pos = line_numbers[ResumeArgs.num]
          /\ ~error_handle_mode
          /\ error_resume = <<>>
          /\ ~suspend_all
          /\ on_error = hist.start.on_error
    /\ (hist.since_resume = "raised" /\ hist.op \in StatementKinds
          /\ hist.try.on_error \notin {NONE, 0}) =>
          /\ status = "parsing"
          /\ run_mode
          /\ program_pos = line_numbers[hist.try.on_error]
          /\ error_handle_mode
          /\ suspend_all
          /\ error_resume = <<hist.start.current_statement, hist.ins>>
          /\ error_num = hist.raised

\* after RESUME <line> an error was raised and trapped again
C6_TrappedAgain ==
    /\ hist.since_resume = "raised" /\ hist.op \in StatementKinds
    /\ hist.try.on_error \notin {NONE, 0}
    /\ error_handle_mode /\ status = "parsing"

Signals == {"break", "exit", "reset"}

\* C7: a control signal (Break of the event poll or of STOP, Exit of SYSTEM,
\* Reset) is not dispatched to the trap in any trap state: parse() raises it
\* to its caller, and the trap target, the handling flag, the resume-context
\* and ERR/ERL are as before the iteration.
C7_SignalsNotTrapped ==
    /\ (hist.op \in StatementKinds /\ hist.try.sig \in Signals) =>
          status = hist.try.sig
    /\ status \in Signals =>
          /\ on_error = hist.pre.on_error
          /\ error_handle_mode = hist.pre.error_handle_mode
          /\ error_resume = hist.pre.error_resume
          /\ error_num = hist.pre.error_num
          /\ error_pos = hist.pre.error_pos

\* STOP has raised Break with the trap set and no handler active
C7_StopWithTrapArmed ==
    /\ Ran("STOP") /\ status = "break"
    /\ on_error \notin {NONE, 0} /\ ~error_handle_mode

\* C8: the end of the stream reached with no resume-context pending: parse()
\* returns without error and the engine is Halted; the GOSUB, FOR and WHILE
\* stacks are as they were.
C8_EndOfStreamHalts ==
    (Ran("end") /\ hist.start.error_resume = <<>>) =>
        /\ status = "returned"
        /\ hist.raised = 0
        /\ Halted
        /\ gosub_stack = hist.pre.gosub_stack
        /\ for_stack = hist.pre.for_stack
        /\ while_stack = hist.pre.while_stack
        /\ error_num = hist.pre.error_num

\* the program has ended inside a subroutine and a loop
C8_EndedWithFrames ==
    /\ Ran("end") /\ hist.ins /\ status = "returned"
    /\ gosub_stack # <<>> /\ for_stack # <<>>

\* the arguments of the FOR that the last iteration executed, and its NEXT
ForArgs ==
    parse_for_args(Buf(hist.ins),
                   skip_blank(Buf(hist.ins), Tell(hist.start, hist.ins)) + 1,
                   hist.start.scalars)
ForNext == find_next(Buf(hist.ins), ForArgs.pos, ForArgs.varname)
PastStop(a) == IF a.step > 0 THEN a.start > a.stop ELSE a.start < a.stop

\* C9: a FOR with a valid NEXT whose start is past its stop in the direction
\* of the step raises no error, executes nothing of the body, leaves the
\* counter at start plus one step and the FOR stack as it was, and continues
\* just after the matching NEXT entry.
C9_EmptyLoopSkipsToNext ==
    (Ran("FOR") /\ ForArgs.err = 0 /\ ForNext.err = 0 /\ ForArgs.step # 0
        /\ PastStop(ForArgs)) =>
        /\ hist.raised = 0
        /\ status = "parsing"
        /\ scalars[ForArgs.varname] = ForArgs.start + ForArgs.step
        /\ for_stack = hist.start.for_stack
        /\ output = hist.start.output
        /\ Cursor(hist.ins) = skip_blank(Buf(hist.ins), ForNext.nextpos)

\* the values the counter of FOR v = a TO b STEP s takes in the body
RECURSIVE Values(_, _, _)
Values(a, b, s) ==
    IF (s > 0 /\ a > b) \/ (s < 0 /\ a < b) THEN <<>>
    ELSE <<a>> \o Values(a + s, b, s)

IsPrefix(x, y) == Len(x) <= Len(y) /\ x = SubSeq(y, 1, Len(x))

\* the programs and direct lines with one loop around PRINT v, then PRINT 9
SingleLoop(a, b, s) ==
    \/ program = ProgramOf(<< L(10, <<sFORSTEP(VI, a, b, s), sPRINTV(VI), sNEXT>>),
                              L(20, <<sPRINT(9)>>) >>)
    \/ program = ProgramOf(<< L(10, <<sFORSTEP(VJ, a, b, s)>>),
                              L(20, <<sPRINTV(VJ)>>),
                              L(30, <<sNEXTV(VJ), sPRINT(9)>>) >>)
DirectLoop(a, b, s) ==
    /\ program = ProgramOf(<<>>)
    /\ direct_line = DirectOf(<<sFORSTEP(VI, a, b, s), sPRINTV(VI), sNEXT>>)

\* C10: FOR v = a TO b STEP s around a body without jumps executes the body
\* once for each of a, a+s, a+2s, ... that is not past b, in this order; the
\* NEXT that ends the loop pops the frame, and execution goes on after the
\* NEXT until the engine halts.
C10_LoopRunsOverValues ==
    \A a \in Vals, b \in Vals, s \in Steps :
        /\ SingleLoop(a, b, s) =>
              /\ status # "error"
              /\ IsPrefix(output, Values(a, b, s) \o <<9>>)
              /\ Len(for_stack) <= 1
              /\ status = "returned" =>
                    /\ output = Values(a, b, s) \o <<9>>
                    /\ for_stack = <<>>
                    /\ Halted
        /\ DirectLoop(a, b, s) =>
              /\ status # "error"
              /\ IsPrefix(output, Values(a, b, s))
              /\ status = "returned" =>
                    /\ output = Values(a, b, s)
                    /\ for_stack = <<>>
                    /\ Halted

\* 10 FOR I=1 TO 3 STEP 1:PRINT I:NEXT has run to its end
C10_OneToThree ==
    /\ SingleLoop(1, 3, 1)
    /\ status = "returned" /\ output = <<1, 2, 3, 9>> /\ for_stack = <<>>

\* the name that follows the NEXT the last iteration executed, and where it ends
NextName ==
    LET named(buf, q) ==
            IF Byte(buf, q) \notin (tk_END_STATEMENT \cup {COMMA})
            THEN parse_name(buf, q)
            ELSE [name |-> <<>>, pos |-> q, err |-> 0]
        keyword(buf, q) == named(buf, skip_blank(buf, q + 1))
    IN keyword(Buf(hist.ins), skip_blank(Buf(hist.ins), Tell(hist.start, hist.ins)))

\* the frames of the stack whose cached NEXT offset is pos
Matching(stack, pos) == {i \in 1..Len(stack) : stack[i].nextpos = pos}
Max(S) == CHOOSE x \in S : \A y \in S : y <= x
Stepped(m, fr) == m.scalars[fr.counter] + fr.step
PastEnd(fr, v) == IF fr.sgn > 0 THEN v > fr.stop ELSE fr.stop > v

\* C11: NEXT selects the innermost FOR frame whose cached NEXT offset is the
\* cursor position behind its name, whatever the name is; the frames above
\* the selected one are discarded and the selected one is iterated; when no
\* frame has that offset NEXT raises NEXT_WITHOUT_FOR and the FOR stack is
\* left as it was.
C11_NextSelectsByPosition ==
    (Ran("NEXT") /\ NextName.err = 0) =>
        LET stack == hist.start.for_stack
            live == Matching(stack, NextName.pos)
            selected(sel, fr, v) ==
                IF PastEnd(fr, v)
                THEN IsPrefix(hist.try.for_stack, SubSeq(stack, 1, sel - 1))
                ELSE /\ hist.raised = 0
                     /\ hist.try.for_stack = SubSeq(stack, 1, sel)
                     /\ hist.try.scalars =
                           [hist.start.scalars EXCEPT ![fr.counter] = v]
                     /\ Tell(hist.try, hist.ins) = fr.forpos
        IN IF live = {}
           THEN /\ hist.raised = NEXT_WITHOUT_FOR
                /\ hist.try.for_stack = stack
                /\ for_stack = stack
           ELSE selected(Max(live), stack[Max(live)],
                         Stepped(hist.start, stack[Max(live)]))

\* the NEXT of the outer loop was reached from inside the inner loop: the
\* frame of the inner loop is gone and the outer loop goes on
C11_OuterNextDropsInner ==
    /\ Ran("NEXT") /\ hist.raised = 0
    /\ Len(hist.start.for_stack) = 2
    /\ Matching(hist.start.for_stack, NextName.pos) = {1}
    /\ for_stack = SubSeq(hist.start.for_stack, 1, 1)

\* the first byte of the statement the last iteration executed
StatementAt == skip_blank(Buf(hist.ins), Tell(hist.start, hist.ins))

\* the WHILE the last iteration executed: the cursor behind the keyword, its
\* condition as the engine evaluated it, and its WEND
WhilePos == StatementAt + 1
Condition(whilepos) == parse_expression(Buf(hist.ins), whilepos, hist.start.scalars)
ConditionEnd(whilepos) == require_end(Buf(hist.ins), Condition(whilepos).pos)
WhileWend == find_wend(Buf(hist.ins), WhilePos)

\* the WEND the last iteration executed: where its statement ends, and the
\* frames of the WHILE stack that cache this offset
WendEnd == require_end(Buf(hist.ins), StatementAt + 1)
WendFrames ==
    {i \in 1..Len(hist.start.while_stack) :
        hist.start.while_stack[i].wendpos = WendEnd.pos}
WendFrame == hist.start.while_stack[Max(WendFrames)]
ReachedWend == Ran("WEND") /\ WendEnd.err = 0 /\ WendFrames # {}

C13_ZeroConditionLeavesLoop ==
    /\ (Ran("WHILE") /\ WhileWend.err = 0 /\ Condition(WhilePos).err = 0
          /\ Condition(WhilePos).val = 0) =>
          /\ hist.raised = 0
          /\ status = "parsing"
          /\ while_stack = hist.start.while_stack
          /\ Cursor(hist.ins) = WhileWend.wendpos
          /\ Byte(Buf(hist.ins), Cursor(hist.ins)) \in tk_END_STATEMENT
          /\ output = hist.start.output
          /\ scalars = hist.start.scalars
    /\ (ReachedWend /\ Condition(WendFrame.whilepos).err = 0
          /\ Condition(WendFrame.whilepos).val = 0) =>
          /\ hist.raised = 0
          /\ status = "parsing"
          /\ while_stack = SubSeq(hist.start.while_stack, 1, Max(WendFrames) - 1)
          /\ Cursor(hist.ins) = WendFrame.wendpos
          /\ output = hist.start.output

\* WHILE has found its condition zero and skipped the loop
C13_SkippedAtWhile ==
    /\ Ran("WHILE") /\ hist.raised = 0 /\ Condition(WhilePos).val = 0
    /\ while_stack = hist.start.while_stack
    /\ Cursor(hist.ins) = WhileWend.wendpos

\* C14: a WEND at position p pops the frames above the innermost frame whose
\* cached WEND offset is p and evaluates the condition of that frame at its
\* WHILE offset: the loop goes on with the frames up to that frame, or ends
\* with the frames below it; when no frame caches p the WEND raises
\* WEND_WITHOUT_WHILE, the stack having become empty.
C14_WendPopsStaleFrames ==
    (Ran("WEND") /\ WendEnd.err = 0) =>
        IF WendFrames = {}
        THEN /\ hist.raised = WEND_WITHOUT_WHILE
             /\ hist.try.while_stack = <<>>
        ELSE /\ Condition(WendFrame.whilepos).err = 0 =>
                  IF Condition(WendFrame.whilepos).val # 0
                  THEN /\ hist.try.while_stack =
                            SubSeq(hist.start.while_stack, 1, Max(WendFrames))
                       /\ Tell(hist.try, hist.ins) = ConditionEnd(WendFrame.whilepos).pos
                  ELSE /\ hist.try.while_stack =
                            SubSeq(hist.start.while_stack, 1, Max(WendFrames) - 1)
                       /\ Tell(hist.try, hist.ins) = WendFrame.wendpos
             /\ hist.raised # WEND_WITHOUT_WHILE

\* the WEND of the outer loop was reached from inside the inner loop: the
\* frame of the inner loop is gone and the outer loop goes on
C14_OuterWendDropsInner ==
    /\ ReachedWend /\ hist.raised = 0
    /\ Len(hist.start.while_stack) = 2 /\ Max(WendFrames) = 1
    /\ Condition(WendFrame.whilepos).val # 0
    /\ while_stack = SubSeq(hist.start.while_stack, 1, 1)

\* the list of line numbers from p on, parsed to its end
RECURSIVE JumpList(_, _, _)
JumpList(buf, p, acc) ==
    LET comma(j, q) ==
            IF Byte(buf, q) = COMMA THEN JumpList(buf, q + 1, Append(acc, j.num))
            ELSE [targets |-> Append(acc, j.num), pos |-> q,
                  err |-> require_end(buf, q).err]
        number(j) ==
            IF j.err # 0 THEN [targets |-> acc, pos |-> j.pos, err |-> j.err]
            ELSE IF j.num = NONE
            THEN [targets |-> acc, pos |-> j.pos, err |-> require_end(buf, j.pos).err]
            ELSE comma(j, skip_blank(buf, j.pos))
    IN number(parse_optional_jumpnum(buf, p))

\* the ON n GOTO/GOSUB t1, ..., tk that the last iteration executed
OnValue == parse_expression(Buf(hist.ins), StatementAt + 1, hist.start.scalars)
OnType == require_read(Buf(hist.ins), OnValue.pos, {tk_GOTO, tk_GOSUB})
OnTargets == JumpList(Buf(hist.ins), OnType.pos, <<>>)
OnJumpRan ==
    /\ Ran("ON_JUMP")
    /\ OnValue.err = 0 /\ OnValue.val \in 0..255
    /\ OnType.err = 0 /\ OnTargets.err = 0
    /\ \A i \in 1..Len(OnTargets.targets) : OnTargets.targets[i] \in DOMAIN line_numbers

\* C15: ON n GOTO/GOSUB t1, ..., tk with n in 0..255, in the stored program
\* or on the direct line. For 1 <= n <= k control goes to t_n (GOSUB pushes
\* one return frame) and no error is raised; for n = k+1 a Syntax error is
\* raised and no jump is made; for n = 0 or n > k+1 no jump is made, no error
\* is raised and execution goes on behind the statement.
C15_OnJumpSelects ==
    OnJumpRan =>
        LET n == OnValue.val
            k == Len(OnTargets.targets)
        IN IF n \in 1..k
           THEN /\ hist.raised = 0
                /\ status = "parsing"
                /\ run_mode
                /\ program_pos = line_numbers[OnTargets.targets[n]]
                /\ Len(gosub_stack) = Len(hist.start.gosub_stack)
                                        + (IF OnType.c = tk_GOSUB THEN 1 ELSE 0)
                /\ SubSeq(gosub_stack, 1, Len(hist.start.gosub_stack))
                      = hist.start.gosub_stack
           ELSE IF n = k + 1
           THEN /\ hist.raised = STX
                /\ hist.try.run_mode = hist.start.run_mode
                /\ hist.try.ppos = hist.start.ppos \/ hist.ins
                /\ hist.try.gosub_stack = hist.start.gosub_stack
           ELSE /\ hist.raised = 0
                /\ status = "parsing"
                /\ run_mode = hist.start.run_mode
                /\ Cursor(hist.ins) = OnTargets.pos
                /\ gosub_stack = hist.start.gosub_stack


\* the variable names of a READ statement, from the cursor behind the keyword
RECURSIVE VarList(_, _)
VarList(buf, p) ==
    LET more(n, q) ==
            IF Byte(buf, q) = COMMA THEN <<n.name>> \o VarList(buf, q + 1)
            ELSE <<n.name>>
        named(n) == IF n.err # 0 THEN <<>> ELSE more(n, skip_blank(buf, n.pos))
    IN named(parse_name(buf, p))

\* the names the READ of the last iteration reads into
ReadNames == VarList(Buf(hist.ins), StatementAt + 1)

\* the cursors of the program where the statement DATA 10,"A,B",20 starts, and
\* the first DATA statement of the program
Data3At == {d \in 0..(Len(program) - Len(sDATA3)) : Bytes(program, d, d + Len(sDATA3)) = sDATA3}
Least(S) == CHOOSE x \in S : \A y \in S : x <= y
FirstData == Least({d \in 0..Len(program) : Byte(program, d) = tk_DATA})

\* the fields of DATA 10,"A,B",20: the cursor behind each, counted from the
\* keyword, and its value
Fields ==
    << [end |-> 4, str |-> FALSE, val |-> 10],
       [end |-> 10, str |-> TRUE, val |-> <<65, COMMA, 66>>],
       [end |-> 13, str |-> FALSE, val |-> 20] >>

\* the DATA cursors from which the next READ reads field k of the statement at d
FieldStarts(d, k) ==
    IF k > 1 THEN {d + Fields[k - 1].end}
    ELSE IF d = FirstData THEN {0, d} \cup {line_numbers[n] : n \in {l \in DOMAIN line_numbers : line_numbers[l] < d}}
    ELSE {d}

\* the READ of the last iteration started at field k of the statement at d and
\* its variables have the types of the fields from k on
ReadsFrom(d, k) ==
    /\ Ran("READ")
    /\ hist.start.data_pos \in FieldStarts(d, k)
    /\ ReadNames # <<>>
    /\ k + Len(ReadNames) - 1 <= Len(Fields)
    /\ \A i \in 1..Len(ReadNames) :
          (ReadNames[i][Len(ReadNames[i])] = STR) = Fields[k + i - 1].str
    /\ \A i, j \in 1..Len(ReadNames) : ReadNames[i] = ReadNames[j] => i = j

\* C16: successive READs consume the fields of DATA 10,"A,B",20 in order, one
\* field per variable, each READ starting where the previous one stopped: the
\* integer, string and integer variables get 10, "A,B" and 20 (the comma inside
\* the quotes does not split the field), and the DATA cursor is left just
\* behind the last field read, behind the third field after three variables.
C16_ReadConsumesFields ==
    \A d \in Data3At : \A k \in 1..Len(Fields) :
        ReadsFrom(d, k) =>
            /\ hist.try.err = 0
            /\ \A i \in 1..Len(ReadNames) : scalars[ReadNames[i]] = Fields[k + i - 1].val
            /\ data_pos = d + Fields[k + Len(ReadNames) - 1].end

\* READ A%, B$, C% has read the three fields, from the start of the program on
C16_ThreeFieldsRead ==
    /\ \E d \in Data3At : ReadsFrom(d, 1) /\ data_pos = d + Len(sDATA3)
    /\ hist.start.data_pos = 0
    /\ ReadNames = <<VA, VB, VC>>
    /\ scalars[VA] = 10 /\ scalars[VB] = <<65, COMMA, 66>> /\ scalars[VC] = 20

\* the third of three successive READ statements has read the third field
C16_ThirdReadDone ==
    /\ \E d \in Data3At : ReadsFrom(d, 3) /\ data_pos = d + Len(sDATA3)
    /\ ReadNames = <<VC>>
    /\ scalars[VA] = 10 /\ scalars[VB] = <<65, COMMA, 66>> /\ scalars[VC] = 20


\* the cursors behind the variable names of a READ statement
RECURSIVE NameEnds(_, _)
NameEnds(buf, p) ==
    LET more(n, q) ==
            IF Byte(buf, q) = COMMA THEN <<n.pos>> \o NameEnds(buf, q + 1)
            ELSE <<n.pos>>
        named(n) == IF n.err # 0 THEN <<>> ELSE more(n, skip_blank(buf, n.pos))
    IN named(parse_name(buf, p))

ReadNameEnds == NameEnds(Buf(hist.ins), StatementAt + 1)

\* the operations that may move the DATA cursor
DataKinds == {"READ", "RESTORE", "CLEAR"}

\* the READ of the last iteration has failed on its first variable
FailedOnFirst ==
    /\ Ran("READ") /\ hist.try.err # 0 /\ ReadNames # <<>>
    /\ \/ Len(ReadNames) = 1
       \/ hist.try.err = OUT_OF_DATA /\ Tell(hist.try, hist.ins) = ReadNameEnds[1]

C18_ClearEmptiesAll ==
    (Ran("CLEAR") /\ hist.raised = 0) =>
        /\ gosub_stack = <<>>
        /\ for_stack = <<>>
        /\ while_stack = <<>>
        /\ on_error = NONE
        /\ ~error_handle_mode
        /\ error_resume = <<>>
        /\ data_pos = 0


\* the line number of the ON ERROR GOTO of the last iteration, and the end of
\* its statement
OnErrorTarget ==
    parse_jumpnum(Buf(hist.ins),
                  skip_blank(Buf(hist.ins), skip_blank(Buf(hist.ins), StatementAt + 1) + 1) + 1)
DisabledTrapping ==
    /\ Ran("ON_ERROR")
    /\ OnErrorTarget.err = 0 /\ OnErrorTarget.num = 0
    /\ require_end(Buf(hist.ins), OnErrorTarget.pos).err = 0

\* C19: after ON ERROR GOTO 0, executed inside or outside an error handler,
\* the resume-context is none.
C19_DisablingClearsResume ==
    DisabledTrapping => error_resume = <<>>


\* the iteration went through the top of the main loop
Iterated == hist.op \notin {"init", "signal"}

\* the events that the top of the iteration has to dispatch: the engine runs
\* the program, dispatch is not suspended, and the event is enabled,
\* triggered, not stopped and has a trap line
Eligible ==
    IF ~hist.pre.run_mode \/ hist.pre.suspend_all THEN {}
    ELSE {e \in DOMAIN hist.pre.events :
            /\ hist.pre.events[e].enabled /\ hist.pre.events[e].triggered
            /\ ~hist.pre.events[e].stopped /\ hist.pre.events[e].gosub # NONE}

\* the frames the top of the iteration has pushed
EventFrames ==
    SubSeq(hist.start.gosub_stack, Len(hist.pre.gosub_stack) + 1,
           Len(hist.start.gosub_stack))

\* C20: at the top of an iteration an event is dispatched exactly when the
\* engine is in run mode, dispatch is not suspended, and the event is enabled,
\* triggered, not stopped and has a trap line. Dispatch clears its triggered
\* flag, sets its stopped latch and pushes one GOSUB frame that refers to the
\* event; the first frame pushed holds the position of the statement that was
\* about to run, and the statement executed is the first one of the trap line
\* of the event on top. Every other event keeps its flags: in direct mode or
\* while suspended nothing is dispatched and a triggered event stays pending.
C20_EventDispatch ==
    Iterated =>
        /\ \A e \in DOMAIN hist.pre.events :
              IF e \in Eligible
              THEN /\ ~hist.start.events[e].triggered
                   /\ hist.start.events[e].stopped
                   /\ hist.start.events[e].enabled
                   /\ hist.start.events[e].gosub = hist.pre.events[e].gosub
                   /\ Cardinality({i \in 1..Len(EventFrames) : EventFrames[i].handler = e}) = 1
              ELSE hist.start.events[e] = hist.pre.events[e]
        /\ Len(EventFrames) = Cardinality(Eligible)
        /\ SubSeq(hist.start.gosub_stack, 1, Len(hist.pre.gosub_stack)) = hist.pre.gosub_stack
        /\ Eligible # {} =>
              /\ EventFrames[1].pos = hist.pre.ppos
              /\ \A i \in 1..Len(EventFrames) : EventFrames[i].run_mode
              /\ hist.start.run_mode
              /\ hist.start.current_statement =
                    line_numbers[hist.pre.events[EventFrames[Len(EventFrames)].handler].gosub]
        /\ Eligible = {} =>
              /\ hist.start.run_mode = hist.pre.run_mode
              /\ hist.start.current_statement = Tell(hist.pre, hist.pre.run_mode)

\* an event triggered during an error handler has stayed pending while
\* dispatch was suspended and is dispatched behind the RESUME
C20_DispatchedAfterResume ==
    /\ Iterated /\ Eligible = {1} /\ DOMAIN hist.pre.events = {1, 2}
    /\ hist.pre.events[2].triggered /\ hist.pre.events[2].gosub = NONE
    /\ hist.pre.error_resume = <<>> /\ hist.pre.error_num = 0 /\ hist.pre.data_pos = 0
    /\ hist.pre.current_statement = line_numbers[40]
    /\ gosub_stack = <<[pos |-> hist.pre.ppos, run_mode |-> TRUE, handler |-> 1]>>
    /\ Ran("LET") /\ scalars[VJ \o <<DefaultSigil>>] = 0
    /\ events[1].stopped /\ ~events[1].triggered /\ events[2].triggered


\* the argument of the RETURN of the last iteration, and the frame it pops
ReturnArg == parse_optional_jumpnum(Buf(hist.ins), StatementAt + 1)
ReturnPops ==
    /\ Ran("RETURN") /\ ReturnArg.err = 0 /\ hist.start.gosub_stack # <<>>
ReturnFrame == hist.start.gosub_stack[Len(hist.start.gosub_stack)]

Pending ==
    {e \in DOMAIN hist.pre.events :
        /\ hist.pre.events[e].enabled /\ hist.pre.events[e].triggered
        /\ ~hist.pre.events[e].stopped /\ hist.pre.events[e].gosub # NONE}

\* C22: whenever the engine is between two statements with handling set,
\* event dispatch is suspended and the resume-context is set; the trap
\* dispatch of an error sets both; an iteration that starts with handling set
\* dispatches no event trap, whatever events are pending.
C22_HandlingSuspendsEvents ==
    /\ error_handle_mode => suspend_all /\ error_resume # <<>>
    /\ (Iterated /\ hist.raised # 0 /\ status = "parsing") =>
          error_handle_mode /\ suspend_all
    /\ (Iterated /\ hist.pre.error_handle_mode) =>
          /\ hist.start.events = hist.pre.events
          /\ hist.start.gosub_stack = hist.pre.gosub_stack
          /\ hist.dispatched = {}

\* a statement of an error handler has run while an event was pending
C22_PendingInHandler ==
    /\ Iterated /\ hist.pre.error_handle_mode /\ hist.pre.run_mode
    /\ Pending # {}
    /\ hist.start.gosub_stack = hist.pre.gosub_stack
    /\ \A e \in Pending : hist.start.events[e].triggered


\* C23: a RETURN whose argument parses and that finds the GOSUB stack empty
\* raises RETURN without GOSUB and changes nothing: when the error leaves the
\* statement the run mode, the stacks, the events, the variables and the DATA
\* cursor are as at the start of the statement, the cursor of the other
\* stream is unmoved, and the cursor of the stream of the statement is just
\* behind the text of the RETURN.
C23_ReturnWithoutGosub ==
    (Ran("RETURN") /\ ReturnArg.err = 0 /\ hist.start.gosub_stack = <<>>) =>
        /\ hist.raised = RETURN_WITHOUT_GOSUB
        /\ hist.try.run_mode = hist.start.run_mode
        /\ Tell(hist.try, hist.ins) = ReturnArg.pos
        /\ Tell(hist.try, ~hist.ins) = Tell(hist.start, ~hist.ins)
        /\ hist.try.gosub_stack = <<>>
        /\ hist.try.for_stack = hist.start.for_stack
        /\ hist.try.while_stack = hist.start.while_stack
        /\ hist.try.events = hist.start.events
        /\ hist.try.scalars = hist.start.scalars
        /\ hist.try.data_pos = hist.start.data_pos
        /\ hist.try.output = hist.start.output

\* a RETURN in the program has found the GOSUB stack empty
C23_StrayReturn ==
    /\ Ran("RETURN") /\ hist.start.gosub_stack = <<>> /\ hist.start.run_mode
    /\ hist.raised = RETURN_WITHOUT_GOSUB
    /\ hist.try.ppos = ReturnArg.pos /\ hist.try.dpos = hist.start.dpos


\* the line number of the GOTO of the last iteration
GotoArg == parse_jumpnum(Buf(hist.ins), StatementAt + 1)

\* the line number stored in the line record at offset p of the program
LineNumberAt(p) == program[p + 4] + 256 * program[p + 5]

\* C24: GOTO n with n in the line-number index puts the program cursor on the
\* marker of the record of line n and sets run mode, in the program and on
\* the direct line (where text behind the number is then a syntax error, the
\* jump being made); GOTO n with n not in the index raises Undefined line
\* number and leaves the run mode and both cursors: the cursor of the
\* statement's stream behind the number, the other one unmoved.
C24_GotoJumps ==
    /\ (Ran("GOTO") /\ GotoArg.err = 0 /\ GotoArg.num \in DOMAIN line_numbers) =>
          /\ hist.try.run_mode
          /\ hist.try.ppos = line_numbers[GotoArg.num]
          /\ Byte(program, hist.try.ppos) = NUL
          /\ LineNumberAt(hist.try.ppos) = GotoArg.num
          /\ hist.raised # 0 => (hist.raised = STX /\ ~hist.ins)
          /\ ~hist.ins => hist.try.dpos >= GotoArg.pos
    /\ (Ran("GOTO") /\ GotoArg.err = 0 /\ GotoArg.num \notin DOMAIN line_numbers) =>
          /\ hist.raised = UNDEFINED_LINE_NUMBER
          /\ hist.try.run_mode = hist.start.run_mode
          /\ Tell(hist.try, hist.ins) = GotoArg.pos
          /\ Tell(hist.try, ~hist.ins) = Tell(hist.start, ~hist.ins)

\* a GOTO on the direct line has started the program at line 20
C24_DirectGoto ==
    /\ Ran("GOTO") /\ ~hist.ins /\ ~hist.start.run_mode /\ hist.raised = 0
    /\ GotoArg.num = 20 /\ 20 \in DOMAIN line_numbers
    /\ run_mode /\ program_pos = line_numbers[20] /\ program_pos # 0


\* the lines of a buffer: the offset of the first byte of the text of the
\* line that holds offset p (the direct line is one line without marker), and
\* the offset behind that text
Greatest(S) == CHOOSE x \in S : \A y \in S : y <= x
\* the marker behind the last line: that of the end of the program, or that
\* of a record cut off inside its line number
LastMarker ==
    IF SubSeq(program, Len(program) - 2, Len(program)) = <<NUL, 0, 0>>
    THEN Len(program) - 3 ELSE Len(program) - 4
LineMarkers == {line_numbers[n] : n \in DOMAIN line_numbers} \cup {LastMarker}
TextStart(s, p) ==
    IF s THEN Greatest({0} \cup {o + 5 : o \in {l \in LineMarkers : l + 5 <= p}}) ELSE 0
TextEnd(s, p) == Least({Len(Buf(s))} \cup {o \in LineMarkers : s /\ o >= p})
\* the offsets of the text of the lines: not those of a marker, an offset or
\* a line number
TextOf(s) ==
    {p \in 0..(Len(Buf(s)) - 1) : s => \A o \in LineMarkers : p < o \/ p > o + 4}

\* the string literals of a buffer: an opening quote has an even number of
\* quotes and no comment in front of it on its line, the closing quote is the
\* next quote of the line
QuotesIn(s, lo, hi) == {q \in lo..hi : Byte(Buf(s), q) = QUOTE}
QuotesBefore(s, p) == Cardinality(QuotesIn(s, TextStart(s, p), p - 1))
CommentsBefore(s, p) ==
    {r \in TextStart(s, p)..(p - 1) :
        Byte(Buf(s), r) = tk_REM /\ QuotesBefore(s, r) % 2 = 0}
OpeningQuotes(s) ==
    {a \in TextOf(s) :
        /\ Byte(Buf(s), a) = QUOTE
        /\ QuotesBefore(s, a) % 2 = 0
        /\ CommentsBefore(s, a) = {}}
Closed(s, a) == QuotesIn(s, a + 1, TextEnd(s, a) - 1) # {}
ClosingQuote(s, a) == Least(QuotesIn(s, a + 1, TextEnd(s, a) - 1))
Comments(s) ==
    {r \in TextOf(s) :
        /\ Byte(Buf(s), r) = tk_REM
        /\ QuotesBefore(s, r) % 2 = 0
        /\ CommentsBefore(s, r) = {}}
\* the buffers are those the session was started with: no statement of the
\* model writes to the program or to the direct line
Loaded == hist.op = "init"
FindRanges == {tk_END_STATEMENT, tk_END_LINE, tk_END_STATEMENT \cup {tk_IF}, {tk_DATA}}

\* C25: skip_to interprets nothing inside a string literal or a comment. A
\* scan that starts on the opening quote of a closed string ends where a scan
\* that starts behind the closing quote ends, whatever the string holds (a
\* REM byte in it opens no comment); a scan that starts on an unclosed string
\* or on a comment ends where a scan that starts on the end of that line ends
\* (both flags are reset at the line marker). Stated of the buffers as loaded.
C25_SkipToPassesStrings ==
    Loaded => \A s \in BOOLEAN, findrange \in FindRanges :
        /\ \A a \in OpeningQuotes(s) :
              skip_to(Buf(s), a, findrange, TRUE) =
                 IF Closed(s, a)
                 THEN skip_to(Buf(s), ClosingQuote(s, a) + 1, findrange, TRUE)
                 ELSE skip_to(Buf(s), TextEnd(s, a), findrange, TRUE)
        /\ \A r \in Comments(s) :
              skip_to(Buf(s), r, findrange, TRUE) =
                 skip_to(Buf(s), TextEnd(s, r), findrange, TRUE)


\* the offsets inside a string literal (behind the opening quote, up to the
\* closing quote or the end of the line) or inside a comment
Hidden(s) ==
    LET strings == {<<a, IF Closed(s, a) THEN ClosingQuote(s, a) ELSE TextEnd(s, a)>> :
                       a \in OpeningQuotes(s)}
        comments == {<<r, TextEnd(s, r)>> : r \in Comments(s)}
    IN {p \in TextOf(s) : \E h \in strings \cup comments : h[1] < p /\ p < h[2]}
BlockTokens == {tk_FOR, tk_NEXT, tk_WHILE, tk_WEND}
\* the buffer with the loop tokens in strings and comments made letters
Neutral(s) ==
    [i \in 1..Len(Buf(s)) |->
        IF (i - 1) \in Hidden(s) /\ Buf(s)[i] \in BlockTokens THEN 65 ELSE Buf(s)[i]]
\* the offsets behind the loop keywords of the text
BlockStarts(s, tok) ==
    {p + 1 : p \in {q \in TextOf(s) \ Hidden(s) : Byte(Buf(s), q) = tok}}

\* C26: the offset at which skip_block stops does not depend on the FOR,
\* NEXT, WHILE and WEND bytes inside string literals and comments: started
\* behind a FOR or a WHILE of the text it stops at the offset at which it
\* stops in the buffer that has letters for those bytes. Stated of the
\* buffers as loaded.
C26_SkipBlockIgnoresHidden ==
    Loaded => \A s \in BOOLEAN :
        LET neutral == Neutral(s) IN
        /\ \A p \in BlockStarts(s, tk_FOR) :
              skip_block(Buf(s), p, tk_FOR, tk_NEXT, TRUE)
                 = skip_block(neutral, p, tk_FOR, tk_NEXT, TRUE)
        /\ \A p \in BlockStarts(s, tk_WHILE) :
              skip_block(Buf(s), p, tk_WHILE, tk_WEND, FALSE)
                 = skip_block(neutral, p, tk_WHILE, tk_WEND, FALSE)

\* a FOR whose loop is empty has skipped a NEXT in a string literal, a NEXT
\* in a comment and a FOR in a string literal, and continues behind its NEXT
C26_HiddenNextPassed ==
    /\ Ran("FOR") /\ hist.ins /\ hist.raised = 0
    /\ \E a \in OpeningQuotes(TRUE), r \in Comments(TRUE) :
          /\ \E h \in Hidden(TRUE) :
                Byte(program, h) = tk_NEXT /\ a < h /\ h < ClosingQuote(TRUE, a)
          /\ \E h \in Hidden(TRUE) :
                Byte(program, h) = tk_FOR /\ a < h /\ h < ClosingQuote(TRUE, a)
          /\ \E h \in Hidden(TRUE) : Byte(program, h) = tk_NEXT /\ r < h
          /\ StatementAt < a /\ r < hist.try.ppos
    /\ Byte(program, hist.try.ppos - 1) = tk_NEXT
    /\ Neutral(TRUE) # program


\* the offsets of the bytes that follow a multi-byte token
Payload(s) ==
    {q \in TextOf(s) :
        \E t \in TextStart(s, q)..(q - 1) :
            /\ Byte(Buf(s), t) \in DOMAIN tk_PLUS_BYTES
            /\ q - t <= tk_PLUS_BYTES[Byte(Buf(s), t)]}
\* the offsets the scans pass without reading them: behind an odd number of
\* quotes of the line, or behind a REM byte of the line (as skip_to sets its
\* flags: a REM byte in a string literal counts, which is the subject of C25)
Suppressed(s) ==
    {p \in TextOf(s) :
        \/ QuotesBefore(s, p) % 2 = 1
        \/ \E r \in TextStart(s, p)..(p - 1) : Byte(Buf(s), r) = tk_REM}
\* the offsets of the text that are read as tokens
Visible(s) == TextOf(s) \ (Suppressed(s) \cup Payload(s))
\* the tokens among them, blanks left out
Tokens(s) == {v \in Visible(s) : Byte(Buf(s), v) \notin blanks}
\* the first keywords of the statements: the first token of a line and the
\* token behind ':', THEN or ELSE
Before(tokens, s, q) == {v \in tokens : TextStart(s, q) <= v /\ v < q}
Keywords(s) ==
    LET tokens == Tokens(s) IN
    {q \in tokens :
        Before(tokens, s, q) # {} =>
           Byte(Buf(s), Greatest(Before(tokens, s, q))) \in {COLON, tk_THEN, tk_ELSE}}
\* where the counter of skip_block goes up, and where it goes down or the
\* scan stops: at the closing keywords and, in a NEXT, at its commas
Opens(s, open) == {k \in Keywords(s) : Byte(Buf(s), k) = open}
Closes(s, close, allow_comma) ==
    LET keywords == Keywords(s) IN
    {k \in keywords : Byte(Buf(s), k) = close}
    \cup {q \in Tokens(s) :
            /\ allow_comma /\ Byte(Buf(s), q) = COMMA
            /\ Byte(Buf(s), Greatest({k \in keywords : k <= q})) = close}
Depth(opens, closes, p, e) ==
    Cardinality({k \in opens : p <= k /\ k < e})
    - Cardinality({k \in closes : p <= k /\ k < e})
Matches(opens, closes, p) == {e \in closes : p <= e /\ Depth(opens, closes, p, e) = 0}
BlockEnd(s) == IF s THEN LastMarker ELSE Len(direct_line)

\* C27: skip_block stops on the closing token that is met with the counter at
\* zero: the counter goes up at an opening token that is the first keyword
\* of a statement (behind ':', a line marker, THEN or ELSE) and down at a
\* closing token met with the counter above zero; when there is none the
\* scan stops at the end of the buffer and the caller raises FOR without NEXT
\* or WHILE without WEND. Stated of the buffers as loaded.
C27_SkipBlockMatches ==
    Loaded => \A s \in BOOLEAN :
        LET whiles == Opens(s, tk_WHILE)
            wends == Closes(s, tk_WEND, FALSE)
            fors == Opens(s, tk_FOR)
            nexts == Closes(s, tk_NEXT, TRUE)
        IN
        /\ \A k \in whiles :
              IF Matches(whiles, wends, k + 1) # {}
              THEN /\ skip_block(Buf(s), k + 1, tk_WHILE, tk_WEND, FALSE)
                         = Least(Matches(whiles, wends, k + 1))
                   /\ find_wend(Buf(s), k + 1).err = 0
              ELSE /\ skip_block(Buf(s), k + 1, tk_WHILE, tk_WEND, FALSE) >= BlockEnd(s)
                   /\ find_wend(Buf(s), k + 1).err = WHILE_WITHOUT_WEND
        /\ \A k \in fors :
              IF Matches(fors, nexts, k + 1) # {}
              THEN /\ skip_block(Buf(s), k + 1, tk_FOR, tk_NEXT, TRUE)
                         = Least(Matches(fors, nexts, k + 1))
                   /\ find_next(Buf(s), k + 1, <<>>).err # FOR_WITHOUT_NEXT
              ELSE /\ skip_block(Buf(s), k + 1, tk_FOR, tk_NEXT, TRUE) >= BlockEnd(s)
                   /\ find_next(Buf(s), k + 1, <<>>).err = FOR_WITHOUT_NEXT

\* a WHILE whose condition is zero has skipped a loop that opens behind ELSE
\* and continues behind the second WEND
C27_NestedLoopSkipped ==
    /\ Ran("WHILE") /\ hist.ins /\ hist.raised = 0
    /\ \E k \in Opens(TRUE, tk_WHILE) :
          /\ StatementAt < k /\ k < hist.try.ppos
          /\ Byte(program, Greatest(Before(Tokens(TRUE), TRUE, k))) = tk_ELSE
    /\ Cardinality({k \in Closes(TRUE, tk_WEND, FALSE) :
                       StatementAt < k /\ k < hist.try.ppos}) = 2
    /\ Byte(program, hist.try.ppos - 1) = tk_WEND


\* the offset behind the name that follows the NEXT or the comma at e
EntryEnd(buf, e) ==
    IF Byte(buf, skip_blank(buf, e + 1)) \in tk_END_STATEMENT
    THEN skip_blank(buf, e + 1)
    ELSE parse_name(buf, skip_blank(buf, e + 1)).pos
\* the second entry of the NEXT the last iteration executed
NextComma == skip_blank(Buf(hist.ins), NextName.pos)
NextListed ==
    /\ Ran("NEXT") /\ NextName.err = 0 /\ Byte(Buf(hist.ins), NextComma) = COMMA
    /\ Len(hist.start.for_stack) >= 2
    /\ hist.start.for_stack[Len(hist.start.for_stack)].nextpos = NextName.pos
    /\ hist.start.for_stack[Len(hist.start.for_stack) - 1].nextpos
          = EntryEnd(Buf(hist.ins), NextComma)
Counted(vars0, fr) == [vars0 EXCEPT ![fr.counter] = vars0[fr.counter] + fr.step]

\* C28: each entry of NEXT J, I closes one loop. The scan for a FOR stops on
\* the NEXT or on the comma of a NEXT list that is met with the counter at
\* zero, the counter going down once for each entry passed, and the frame of
\* the FOR caches the offset behind the name of that entry (behind J for the
\* inner and behind I for the outer loop of FOR I ... FOR J ... NEXT J, I).
\* NEXT J, I steps J and goes round the inner loop, or, when that loop has
\* ended, pops its frame and steps I in the same statement: it goes round
\* the outer loop or leaves both loops behind the list.
C28_NextListClosesLoops ==
    /\ (Ran("FOR") /\ hist.raised = 0
          /\ Len(hist.try.for_stack) = Len(hist.start.for_stack) + 1) =>
          LET fors == Opens(hist.ins, tk_FOR)
              nexts == Closes(hist.ins, tk_NEXT, TRUE)
              found == Matches(fors, nexts, StatementAt + 1)
          IN /\ found # {}
             /\ hist.try.for_stack[Len(hist.try.for_stack)].nextpos
                   = EntryEnd(Buf(hist.ins), Least(found))
    /\ NextListed =>
          LET stack == hist.start.for_stack
              inner == stack[Len(stack)]
              outer == stack[Len(stack) - 1]
              stepped == Counted(hist.start.scalars, inner)
              both == Counted(stepped, outer)
          IN /\ hist.raised = 0
             /\ IF ~PastEnd(inner, stepped[inner.counter])
                THEN /\ hist.try.for_stack = stack
                     /\ hist.try.scalars = stepped
                     /\ Tell(hist.try, hist.ins) = inner.forpos
                ELSE IF ~PastEnd(outer, both[outer.counter])
                THEN /\ hist.try.for_stack = SubSeq(stack, 1, Len(stack) - 1)
                     /\ hist.try.scalars = both
                     /\ Tell(hist.try, hist.ins) = outer.forpos
                ELSE /\ hist.try.for_stack = SubSeq(stack, 1, Len(stack) - 2)
                     /\ hist.try.scalars = both
                     /\ Tell(hist.try, hist.ins) = skip_blank(Buf(hist.ins), outer.nextpos)

\* NEXT J, I has ended the inner loop and gone round the outer one
C28_InnerEndedOuterStepped ==
    /\ NextListed /\ hist.raised = 0
    /\ Len(hist.try.for_stack) = Len(hist.start.for_stack) - 1
    /\ Tell(hist.try, hist.ins) = hist.try.for_stack[Len(hist.try.for_stack)].forpos
    /\ Byte(Buf(hist.ins), Least(Matches(Opens(hist.ins, tk_FOR),
                                         Closes(hist.ins, tk_NEXT, TRUE),
                                         hist.try.for_stack[Len(hist.try.for_stack)].forpos)))
          = COMMA


\* the IF the last iteration executed: its condition and the offset behind
\* its THEN or GOTO
IfHead ==
    LET buf == Buf(hist.ins)
        e == parse_expression(buf, StatementAt + 1, hist.start.scalars)
        q == skip_blank(buf, e.pos)
        t == require_read(buf, IF Byte(buf, q) = COMMA THEN q + 1 ELSE q,
                          {tk_THEN, tk_GOTO})
    IN [err |-> IF e.err # 0 THEN e.err ELSE t.err, val |-> e.val, pos |-> t.pos]
ZeroIf == Ran("IF") /\ IfHead.err = 0 /\ IfHead.val = 0
\* the IF tokens and the ELSE tokens behind a ':' between offset t and the
\* end of its line
LineIfs(s, t) ==
    {k \in Tokens(s) : t <= k /\ k < TextEnd(s, t) /\ Byte(Buf(s), k) = tk_IF}
LineElses(s, t) ==
    LET tokens == Tokens(s) IN
    {e \in tokens :
        /\ t <= e /\ e < TextEnd(s, t) /\ Byte(Buf(s), e) = tk_ELSE
        /\ \E c \in Before(tokens, s, e) :
              /\ c >= t /\ Byte(Buf(s), c) = COLON
              /\ c = Greatest(Before(tokens, s, e))}
\* the ELSE met at nesting level zero
ElseOf(s, t) ==
    LET ifs == LineIfs(s, t)
        elses == LineElses(s, t)
    IN {e \in elses : Cardinality({k \in ifs : k < e})
                        = Cardinality({x \in elses : x < e})}

\* C29: an IF whose condition is zero continues behind the first ELSE of its
\* line that follows a ':' and is met at nesting level zero, the level being
\* the number of IF tokens passed minus the number of such ELSEs passed: a
\* line number behind that ELSE is jumped to, otherwise the cursor is on its
\* first statement. When the line has no such ELSE the cursor is on the end
\* of the line. The IF itself prints nothing, assigns nothing, touches no
\* stack, and its scan does not pass the line marker.
C29_ZeroIfTakesElse ==
    ZeroIf =>
       LET buf == Buf(hist.ins)
           taken == ElseOf(hist.ins, IfHead.pos)
           q == skip_blank(buf, Least(taken) + 1)
           j == parse_jumpnum(buf, q)
       IN /\ IF taken = {}
             THEN /\ hist.raised = 0
                  /\ Tell(hist.try, hist.ins) = TextEnd(hist.ins, IfHead.pos)
                  /\ hist.try.run_mode = hist.start.run_mode
             ELSE IF Byte(buf, q) # tk_T_UINT
             THEN /\ hist.raised = 0
                  /\ Tell(hist.try, hist.ins) = q
                  /\ hist.try.run_mode = hist.start.run_mode
             ELSE IF j.err # 0 THEN hist.raised = j.err
             ELSE IF j.num \in DOMAIN line_numbers
             THEN /\ hist.raised = 0
                  /\ hist.try.run_mode /\ hist.try.ppos = line_numbers[j.num]
             ELSE /\ hist.raised = UNDEFINED_LINE_NUMBER
                  /\ Tell(hist.try, hist.ins) = j.pos
          /\ (hist.raised # 0 \/ ~hist.try.run_mode \/ hist.ins) =>
                Tell(hist.try, ~hist.ins) = Tell(hist.start, ~hist.ins)
          /\ (taken = {} \/ Byte(buf, q) # tk_T_UINT) =>
                Tell(hist.try, hist.ins) <= TextEnd(hist.ins, IfHead.pos)
          /\ hist.try.output = hist.start.output
          /\ hist.try.scalars = hist.start.scalars
          /\ hist.try.gosub_stack = hist.start.gosub_stack
          /\ hist.try.for_stack = hist.start.for_stack
          /\ hist.try.while_stack = hist.start.while_stack

\* a zero IF has passed a nested IF and its ELSE and stands on the statement
\* of its own ELSE
C29_OuterElseTaken ==
    /\ ZeroIf /\ hist.ins /\ hist.raised = 0
    /\ ElseOf(TRUE, IfHead.pos) # {}
    /\ Cardinality(LineIfs(TRUE, IfHead.pos)) = 1
    /\ Cardinality(LineElses(TRUE, IfHead.pos)) = 2
    /\ Least(ElseOf(TRUE, IfHead.pos)) = Greatest(LineElses(TRUE, IfHead.pos))
    /\ hist.try.ppos = skip_blank(program, Least(ElseOf(TRUE, IfHead.pos)) + 1)
    /\ Byte(program, hist.try.ppos) = tk_PRINT


\* the state in which the argument parser and the callback of the statement
\* of the last iteration have left the engine
Handled ==
    LET m == hist.start
        s == hist.ins
        q == StatementAt
    IN CASE hist.op = "GOTO" -> goto_statement(m, s, q)
         [] hist.op = "GOSUB" -> gosub_statement(m, s, q)
         [] hist.op = "RETURN" -> return_statement(m, s, q)
         [] hist.op = "ON_ERROR" -> on_error_goto_statement(m, s, q)
         [] hist.op = "ON_JUMP" -> on_jump_statement(m, s, q)
         [] hist.op = "RESUME" -> resume_statement(m, s, q)
         [] hist.op = "STOP" -> stop_statement(m, s, q)
         [] hist.op = "SYSTEM" -> system_statement(m, s, q)
         [] hist.op = "PRINT" -> print_statement(m, s, q)
         [] hist.op = "FOR" -> for_statement(m, s, q)
         [] hist.op = "NEXT" -> next_statement(m, s, q)
         [] hist.op = "WHILE" -> while_statement(m, s, q)
         [] hist.op = "WEND" -> wend_statement(m, s, q)
         [] hist.op = "READ" -> read_statement(m, s, q)
         [] hist.op = "RESTORE" -> restore_statement(m, s, q)
         [] hist.op = "IF" -> if_statement(m, s, q)
         [] hist.op = "CLEAR" -> clear_statement(m, s, q)
         [] hist.op = "REM" -> rem_statement(m, s, q)
         [] hist.op = "DATA" -> data_statement(m, s, q)
         [] hist.op = "LET" -> let_statement(m, s, q)
         [] hist.op = "EMPTY" -> empty_statement(m, s, q)
Completed == Iterated /\ hist.op # "end" /\ ~Failed(Handled)
\* the first byte behind the blanks at the cursor the handler has left
HandledAt == skip_blank(Buf(hist.ins), Tell(Handled, hist.ins))

\* C30: when the handler of a statement other than IF has completed, the
\* stream of the statement is read past its blanks: on ':', a line marker or
\* the end of the buffer the statement is done with the cursor there, on any
\* other byte Syntax error is raised with the cursor there. After the handler
\* of IF nothing is read and nothing is raised.
C30_StatementMustEnd ==
    Completed =>
       IF hist.op = "IF" THEN hist.try = Handled
       ELSE IF Byte(Buf(hist.ins), HandledAt) \in {COLON, NUL, EOF}
       THEN hist.try = Seek(Handled, hist.ins, HandledAt)
       ELSE hist.try = Raise(Seek(Handled, hist.ins, HandledAt), STX)

\* a GOTO on the direct line has made its jump and is a syntax error for the
\* text behind its line number
C30_TrailingTextRejected ==
    /\ Completed /\ Ran("GOTO") /\ ~hist.ins
    /\ Handled.run_mode /\ Handled.dpos = GotoArg.pos
    /\ Byte(direct_line, HandledAt) = 88
    /\ hist.raised = STX /\ hist.try.dpos = HandledAt

(***************************************************************************)
(* The text lexer on its own: read_number applied at the start of every    *)
(* short text over LexBytes.  The text is held in direct_line, the cursor  *)
(* in direct_pos; the engine's other variables are idle.                   *)
(***************************************************************************)
MaxText == 4

\* 1 2 blank tab . E L % &
LexBytes == {49, 50, SPACE, TAB9, 46, 69, 76, 37, 38}

Texts == UNION {[1..n -> LexBytes] : n \in 0..MaxText}

LexInit ==
    /\ direct_line \in Texts
    /\ direct_pos = 0
    /\ status = "lexing"
    /\ hist = [op |-> "init", found |-> FALSE, word |-> <<>>]
    /\ program = <<NUL, 0, 0>> /\ line_numbers = <<>>
    /\ run_mode = FALSE /\ program_pos = 0 /\ current_statement = 0
    /\ gosub_stack = <<>> /\ for_stack = <<>> /\ while_stack = <<>>
    /\ data_pos = 0 /\ on_error = NONE /\ error_handle_mode = FALSE
    /\ error_resume = <<>> /\ error_num = 0 /\ error_pos = 0
    /\ suspend_all = FALSE /\ events = <<>>
    /\ scalars = <<>> /\ output = <<>>

Idle ==
    UNCHANGED <<program, line_numbers, direct_line, run_mode, program_pos,
                current_statement, gosub_stack, for_stack, while_stack, data_pos,
                on_error, error_handle_mode, error_resume, error_num, error_pos,
                suspend_all, events, scalars, output>>

\* one call of CodeStream.read_number on the text
ReadNumber ==
    /\ status = "lexing"
    /\ LET r == read_number(direct_line, direct_pos)
       IN /\ direct_pos' = r.pos
          /\ hist' = [op |-> "read_number", found |-> r.found, word |-> r.word]
    /\ status' = "lexed"
    /\ Idle

LexNext == ReadNumber

LexSpec == LexInit /\ [][LexNext]_vars

\* the text without its blanks
Squeezed(text) == SelectSeq(text, LAMBDA c : c \notin blanks)

\* an unsigned decimal numeral: digits with at most one point
Numeral(text) ==
    /\ \A i \in 1..Len(text) : text[i] \in Digits \cup {46}
    /\ \E i \in 1..Len(text) : text[i] \in Digits
    /\ Cardinality({i \in 1..Len(text) : text[i] = 46}) <= 1

\* the text is a numeral with blanks between its characters and after it
BlankedNumeral(text) ==
    /\ Numeral(Squeezed(text))
    /\ text[1] \notin blanks

\* C31: read_number on a decimal numeral with blanks embedded between its
\* characters returns the numeral with the blanks stripped, the same word it
\* returns for the numeral from which the blanks were removed beforehand, and
\* leaves the cursor before the whitespace that follows the numeral.
C31_BlanksStripped ==
    (hist.op = "read_number" /\ BlankedNumeral(direct_line)) =>
        /\ hist.found
        /\ hist.word = read_number(Squeezed(direct_line), 0).word
        /\ hist.word = Squeezed(direct_line)
        /\ direct_pos = Len(rstrip(direct_line, blanks))

\* the last iteration executed ON ERROR GOTO 0 inside an error handler
DisabledInHandler ==
    /\ Ran("ON_ERROR")
    /\ OnErrorTarget.err = 0 /\ OnErrorTarget.num = 0
    /\ hist.start.error_handle_mode

\* C32: ON ERROR GOTO 0 executed while an error is being handled sets the trap
\* target to 0 and re-raises the handled error with the same number and
\* position; that error is not trapped: parse() raises it to its caller and
\* the engine is Halted with handling false.
C32_DisableInHandlerReraises ==
    DisabledInHandler =>
        /\ hist.try.on_error = 0
        /\ hist.raised = hist.start.error_num
        /\ hist.try.epos = hist.start.error_pos
        /\ status = "error"
        /\ Halted
        /\ ~error_handle_mode
        /\ on_error = 0
        /\ error_num = hist.start.error_num
        /\ error_pos = hist.start.error_pos
        /\ gosub_stack = hist.start.gosub_stack

\* the handler of a trapped Syntax error has executed ON ERROR GOTO 0
C32_SyntaxErrorReraised ==
    /\ DisabledInHandler
    /\ hist.start.error_num = STX
    /\ hist.start.on_error \notin {NONE, 0}
    /\ error_num = STX

\* the last iteration executed RESUME with no resume-context
ResumedWithoutError == Ran("RESUME") /\ hist.start.error_resume = <<>>

\* C33: RESUME executed with no resume-context sets the trap target to 0 and
\* then raises RESUME without error, so the error is not dispatched to the
\* trap, even when one was set: parse() raises it to its caller and the engine
\* is Halted, with no resume-context and the GOSUB stack untouched.
C33_ResumeWithoutError ==
    ResumedWithoutError =>
        /\ hist.raised = RESUME_WITHOUT_ERROR
        /\ hist.try.on_error = 0
        /\ hist.try.run_mode = hist.start.run_mode
        /\ Tell(hist.try, hist.ins) = StatementAt + 1
        /\ status = "error"
        /\ Halted
        /\ ~error_handle_mode
        /\ on_error = 0
        /\ error_resume = <<>>
        /\ error_num = RESUME_WITHOUT_ERROR
        /\ gosub_stack = hist.start.gosub_stack

\* a stray RESUME in the trap routine itself, reached while the trap is set
C33_StrayResumeInTrapLine ==
    /\ ResumedWithoutError
    /\ hist.ins
    /\ hist.start.on_error \notin {NONE, 0}
    /\ LineNumberAt(hist.start.current_statement) = hist.start.on_error

\* the NEXT entries that close the FOR of the last iteration, found by lexing
\* the text behind its clause
ForMatches ==
    Matches(Opens(hist.ins, tk_FOR), Closes(hist.ins, tk_NEXT, TRUE), ForArgs.pos)
\* the variable named in the NEXT entry at e: <<>> when there is none
EntryName(e) ==
    LET at(q) == IF Byte(Buf(hist.ins), q) \in tk_END_STATEMENT
                 THEN [name |-> <<>>, pos |-> q, err |-> 0]
                 ELSE parse_name(Buf(hist.ins), q)
    IN at(skip_blank(Buf(hist.ins), e + 1))
\* the NEXT entry at e names a variable other than v, or is an entry behind a
\* comma that names none
OtherVariable(e, v) ==
    /\ EntryName(e).err = 0
    /\ EntryName(e).name # v
    /\ EntryName(e).name # <<>> \/ Byte(Buf(hist.ins), e) = COMMA
\* the last iteration executed a FOR whose clause is well-formed
ForParsed == Ran("FOR") /\ ForArgs.err = 0
\* nothing of the loop was set up
NoLoopEntered ==
    /\ hist.try.for_stack = hist.start.for_stack
    /\ hist.try.scalars = hist.start.scalars
    /\ for_stack = hist.start.for_stack
    /\ scalars = hist.start.scalars

\* C34: a FOR with no matching NEXT in the rest of the program raises FOR
\* without NEXT with the cursor restored to just behind the FOR clause; a FOR
\* whose matching NEXT names a different variable raises NEXT without FOR; in
\* both cases no frame is pushed on the FOR stack and the loop variable has
\* not been assigned its start value.
C34_ForNeedsItsNext ==
    ForParsed =>
        LET matches == ForMatches IN
        /\ matches = {} =>
              /\ hist.raised = FOR_WITHOUT_NEXT
              /\ Tell(hist.try, hist.ins) = ForArgs.pos
              /\ NoLoopEntered
        /\ (matches # {} /\ OtherVariable(Least(matches), ForArgs.varname)) =>
              /\ hist.raised = NEXT_WITHOUT_FOR
              /\ NoLoopEntered

\* a FOR inside a live loop was refused because its NEXT names the outer
\* variable, the start value differing from the value the variable has
C34_InnerNextNamesOuter ==
    /\ ForParsed /\ hist.raised = NEXT_WITHOUT_FOR
    /\ ForMatches # {}
    /\ hist.start.for_stack # <<>>
    /\ hist.start.scalars[ForArgs.varname] # ForArgs.start

\* the first byte of the statement that the main loop executes with the
\* cursor at p: behind the separator or the line header found there
StatementFrom(buf, p) ==
    LET at(q) == IF Byte(buf, q) = COLON THEN skip_blank(buf, q + 1)
                 ELSE IF Byte(buf, q) \in tk_END_LINE THEN skip_blank(buf, q + 5)
                 ELSE q
    IN at(skip_blank(buf, p))

\* the last iteration executed the RETURN, without line number, of an event
\* trap
EventReturned ==
    /\ ReturnPops /\ ReturnArg.num = NONE /\ ReturnFrame.handler # 0
    /\ hist.raised = 0

\* C35: the RETURN without line number of an event trap that was dispatched
\* before statement X resumes with X, whatever the position of X, the first
\* statement of a THEN clause included: the next statement executed is the one
\* that was about to run when the trap was dispatched, and none is skipped.
C35_EventReturnResumes ==
    EventReturned =>
        /\ hist.try.run_mode
        /\ StatementFrom(program, hist.try.ppos) = StatementFrom(program, ReturnFrame.pos)

\* C36: suspension of event dispatch does not outlive error handling: between
\* two statements, and when parse() has ended, suspend_all implies handling;
\* in particular dispatch is not suspended after an error raised inside an
\* error handler has halted the engine.
C36_SuspensionEndsWithHandling ==
    suspend_all => error_handle_mode

\* C37: the FOR stack never holds two frames with the same NEXT offset: a FOR
\* executed again while its frame is live (after a GOTO out of the body and
\* back to the FOR) adds no second frame for it, so that the stack is never
\* deeper than the number of FOR statements of the program and the direct
\* line.
C37_OneFramePerLoop ==
    /\ \A i, j \in 1..Len(for_stack) :
          for_stack[i].nextpos = for_stack[j].nextpos => i = j
    /\ for_stack # <<>> =>
          Len(for_stack) <= Cardinality(Opens(TRUE, tk_FOR))
                            + Cardinality(Opens(FALSE, tk_FOR))

\* the i-th line number of the list at p, as the parser yields it
RECURSIVE NthJump(_, _, _)
NthJump(buf, p, i) ==
    LET none(q) == [num |-> NONE, pos |-> q, err |-> STX]
        comma(j, q) ==
            IF Byte(buf, q) = COMMA THEN NthJump(buf, q + 1, i - 1) ELSE none(q)
        number(j) ==
            IF j.err # 0 \/ j.num = NONE THEN none(j.pos)
            ELSE IF i = 1 THEN j
            ELSE comma(j, skip_blank(buf, j.pos))
    IN number(parse_optional_jumpnum(buf, p))

\* the target of the GOSUB or ON ... GOSUB that the last iteration executed
GosubTarget ==
    IF Ran("GOSUB") THEN parse_jumpnum(Buf(hist.ins), StatementAt + 1)
    ELSE IF Ran("ON_JUMP") /\ OnValue.err = 0 /\ OnValue.val \in 1..255
            /\ OnType.err = 0 /\ OnType.c = tk_GOSUB
    THEN NthJump(Buf(hist.ins), OnType.pos, OnValue.val)
    ELSE [num |-> NONE, pos |-> 0, err |-> STX]
UndefinedGosub ==
    /\ GosubTarget.err = 0
    /\ GosubTarget.num \notin DOMAIN line_numbers

\* C38: GOSUB and ON ... GOSUB to a line number that is not in the index raise
\* Undefined line number and push nothing: the GOSUB stack and the run mode
\* are those before the statement, and no cursor has jumped: the cursor of
\* the statement's stream is behind the number, the other one unmoved.
C38_UndefinedGosubPushesNothing ==
    UndefinedGosub =>
        /\ hist.raised = UNDEFINED_LINE_NUMBER
        /\ hist.try.gosub_stack = hist.start.gosub_stack
        /\ hist.try.run_mode = hist.start.run_mode
        /\ Tell(hist.try, hist.ins) = GosubTarget.pos
        /\ Tell(hist.try, ~hist.ins) = Tell(hist.start, ~hist.ins)
        /\ hist.try.events = hist.start.events
        /\ gosub_stack = hist.start.gosub_stack

\* the second target of an ON ... GOSUB on the direct line is undefined
C38_SecondTargetUndefined ==
    /\ UndefinedGosub /\ Ran("ON_JUMP") /\ OnValue.val = 2 /\ ~hist.ins
    /\ status = "error" /\ error_num = UNDEFINED_LINE_NUMBER

\* the last iteration executed the RETURN, without line number, that pops the
\* frame pushed first by a poll that dispatched several event traps: all the
\* handlers of that poll have returned
PollReturned ==
    /\ EventReturned
    /\ hist.poll # <<>>
    /\ Len(hist.start.gosub_stack) = Len(hist.poll.stack) + 1
    /\ ReturnFrame.handler \in hist.poll.events

\* C39: when several events are enabled, triggered and not stopped at one
\* poll in run mode with dispatch not suspended, each is dispatched once in
\* that poll with a frame of its own, the frames being chained so that every
\* handler runs (the first holds the cursor of the statement about to run,
\* each later one the trap line of the event dispatched before it); after all
\* the handlers have executed RETURN the engine resumes at the statement that
\* was about to run, the GOSUB stack is as before the poll and the stopped
\* latch of every event of the poll is cleared.
C39_SimultaneousEvents ==
    /\ (Iterated /\ Cardinality(Eligible) >= 2
          /\ \A e \in Eligible : hist.pre.events[e].gosub \in DOMAIN line_numbers) =>
          /\ hist.dispatched = Eligible
          /\ Len(EventFrames) = Cardinality(Eligible)
          /\ \A e \in Eligible :
                Cardinality({i \in 1..Len(EventFrames) : EventFrames[i].handler = e}) = 1
          /\ EventFrames[1].pos = hist.pre.ppos
          /\ \A i \in 2..Len(EventFrames) :
                EventFrames[i].pos =
                   line_numbers[hist.pre.events[EventFrames[i - 1].handler].gosub]
          /\ hist.poll = [stack |-> hist.pre.gosub_stack, pos |-> hist.pre.ppos,
                          events |-> Eligible]
    /\ PollReturned =>
          /\ hist.try.gosub_stack = hist.poll.stack
          /\ \A e \in hist.poll.events : ~hist.try.events[e].stopped
          /\ hist.try.run_mode
          /\ StatementFrom(program, hist.try.ppos)
                = StatementFrom(program, hist.poll.pos)

(***************************************************************************)
(* The structural scans on their own: skip_to, skip_block and the ELSE     *)
(* search of IF applied at the start of every buffer made of at most       *)
(* MaxPieces pieces.  The buffer is held in direct_line, the cursor in     *)
(* direct_pos; the engine's other variables are idle.                      *)
(***************************************************************************)
MaxPieces == 3

\* a line header, a blank end record, a record cut off, an end marker alone,
\* statement heads, separators, string and comment openers, a line number
\* whose bytes are a separator and a marker
ScanPieces ==
    { <<NUL, 1, 1, 10, 0>>, <<NUL, 0, 0>>, <<NUL, 1>>, <<NUL>>,
      <<COLON, tk_FOR>>, <<COLON, tk_NEXT>>, <<COLON, tk_ELSE>>, <<tk_IF>>, <<tk_THEN>>,
      <<COLON>>, <<COMMA>>, <<SPACE>>, <<73>>, <<QUOTE>>, <<tk_REM>>,
      <<tk_T_UINT, COLON, NUL>> }

RECURSIVE ScanBuffers(_)
ScanBuffers(n) ==
    IF n = 0 THEN {<<>>}
    ELSE LET shorter == ScanBuffers(n - 1)
         IN shorter \cup {b \o piece : b \in shorter, piece \in ScanPieces}

\* the sets of bytes the engine scans for
ScanRanges ==
    FindRanges \cup { tk_END_STATEMENT \cup {COMMA},
                      tk_END_STATEMENT \cup {tk_THEN, tk_ELSE} }

ScanInit ==
    /\ direct_line \in ScanBuffers(MaxPieces)
    /\ direct_pos = 0
    /\ status = "scanning"
    /\ hist = [op |-> "init", allow_comma |-> FALSE]
    /\ program = <<NUL, 0, 0>> /\ line_numbers = <<>>
    /\ run_mode = FALSE /\ program_pos = 0 /\ current_statement = 0
    /\ gosub_stack = <<>> /\ for_stack = <<>> /\ while_stack = <<>>
    /\ data_pos = 0 /\ on_error = NONE /\ error_handle_mode = FALSE
    /\ error_resume = <<>> /\ error_num = 0 /\ error_pos = 0
    /\ suspend_all = FALSE /\ events = <<>>
    /\ scalars = <<>> /\ output = <<>>

Scanned(op, allow_comma, pos) ==
    /\ status = "scanning"
    /\ direct_pos' = pos
    /\ hist' = [op |-> op, allow_comma |-> allow_comma]
    /\ status' = "scanned"
    /\ Idle

\* one call of TokenisedStream.skip_to
SkipTo ==
    \E findrange \in ScanRanges, break_on_first_char \in BOOLEAN :
        Scanned("skip_to", FALSE,
                skip_to(direct_line, direct_pos, findrange, break_on_first_char))

\* one call of TokenisedStream.skip_block, with and without the NEXT list
SkipBlock ==
    \E allow_comma \in BOOLEAN :
        Scanned("skip_block", allow_comma,
                skip_block(direct_line, direct_pos, tk_FOR, tk_NEXT, allow_comma))

\* the ELSE search of one Interpreter.if_ whose condition is zero
IfElse == Scanned("if_else", FALSE, if_else(direct_line, direct_pos, 0))

ScanNext == SkipTo \/ SkipBlock \/ IfElse

ScanSpec == ScanInit /\ [][ScanNext]_vars

\* C40: skip_to, skip_block (with and without the comma-list option) and the
\* ELSE search of IF end on every finite buffer, whatever its bytes
\* (unterminated strings and comments, missing terminators, blank and
\* truncated line-marker records), with the cursor at an offset between 0 and
\* the length of the buffer.
C40_ScansEndInBuffer ==
    /\ direct_pos \in 0..Len(direct_line)
    /\ status = "scanning" =>
          /\ \A findrange \in ScanRanges, break_on_first_char \in BOOLEAN :
                skip_to(direct_line, direct_pos, findrange, break_on_first_char)
                   \in direct_pos..Len(direct_line)
          /\ \A allow_comma \in BOOLEAN :
                skip_block(direct_line, direct_pos, tk_FOR, tk_NEXT, allow_comma)
                   \in direct_pos..Len(direct_line)
          /\ if_else(direct_line, direct_pos, 0) \in direct_pos..Len(direct_line)

\* skip_block has scanned a NEXT list behind which a string is opened and not
\* closed, to the end of a buffer without end marker
C40_UnterminatedListScanned ==
    /\ status = "scanned" /\ hist.op = "skip_block" /\ hist.allow_comma
    /\ direct_line = <<COLON, tk_FOR, COLON, tk_NEXT, QUOTE>>
    /\ direct_pos = Len(direct_line)

=============================================================================
